---- MODULE Spec2Model ----
(***************************************************************************)
(* Milvus retrieval repository of WeKnora: the filter compiler             *)
(* (filter.go) and the dimension-sharded repository (repository.go).       *)
(*                                                                         *)
(* Go strings that the code builds or inspects character by character      *)
(* (field names, parameter names, expressions, collection names) are       *)
(* sequences of one-character strings.                                     *)
(***************************************************************************)
EXTENDS Integers, Sequences, FiniteSets, TLC

VARIABLES
    cond,       \* filter: the condition tree handed to Convert
    fres,       \* filter: the result of Convert
    fpc,        \* filter: "input" before the call, "done" after it
    store,      \* backing store: collection name -> [dim, loaded, rows]
    cache,      \* milvusRepository.initializedCollections (set of dimensions)
    nextID,     \* number of identifiers minted so far by uuid.New()
    embeddingIsDoubleArray,
                \* whether the client hands the embedding column of a result
                \* set over as a *column.ColumnDoubleArray (fixed per build)
    last,       \* the last repository call: arguments, store calls, outcome
    pc,         \* ensureCollection callers: position of each caller
    dim,        \* ensureCollection callers: the dimension argument
    has,        \* ensureCollection callers: the answer HasCollection gave
    eret,       \* ensureCollection callers: "pending" | "nil" | "error"
    copy        \* a CopyIndices call followed page by page

vars == <<cond, fres, fpc, store, cache, nextID, embeddingIsDoubleArray, last,
          pc, dim, has, eret, copy>>

filterVars == <<cond, fres, fpc>>
repoVars == <<store, cache, nextID, embeddingIsDoubleArray, last>>
callerVars == <<pc, dim, has, eret>>

(***************************************************************************)
(* Strings                                                                 *)
(***************************************************************************)
Digits == <<"0", "1", "2", "3", "4", "5", "6", "7", "8", "9">>

\* fmt's %d of a non-negative int
RECURSIVE Itoa(_)
Itoa(n) ==
    IF n < 10 THEN <<Digits[n + 1]>>
    ELSE Itoa(n \div 10) \o <<Digits[(n % 10) + 1]>>

\* strings.ReplaceAll(s, old, new) for one-character old and new
ReplaceAll(s, old, new) ==
    [i \in 1..Len(s) |-> IF s[i] = old THEN new ELSE s[i]]

LowerChar(c) ==
    CASE c = "A" -> "a"
      [] c = "N" -> "n"
      [] c = "D" -> "d"
      [] c = "O" -> "o"
      [] c = "R" -> "r"
      [] c = "I" -> "i"
      [] OTHER -> c

\* strings.ToLower
ToLower(s) == [i \in 1..Len(s) |-> LowerChar(s[i])]

\* strings.HasPrefix
HasPrefix(s, p) == Len(s) >= Len(p) /\ SubSeq(s, 1, Len(p)) = p

(***************************************************************************)
(* filter.go: operators                                                    *)
(***************************************************************************)
operatorAnd == <<"a", "n", "d">>
operatorOr == <<"o", "r">>
operatorEqual == <<"e", "q">>
operatorNotEqual == <<"n", "e">>
operatorGreaterThan == <<"g", "t">>
operatorGreaterThanOrEqual == <<"g", "t", "e">>
operatorLessThan == <<"l", "t">>
operatorLessThanOrEqual == <<"l", "t", "e">>
operatorIn == <<"i", "n">>
operatorNotIn == <<"n", "o", "t", " ", "i", "n">>
operatorLike == <<"l", "i", "k", "e">>
operatorNotLike == <<"n", "o", "t", " ", "l", "i", "k", "e">>
operatorBetween == <<"b", "e", "t", "w", "e", "e", "n">>

comparisonOperators ==
    (operatorEqual :> <<"=", "=">>) @@
    (operatorNotEqual :> <<"!", "=">>) @@
    (operatorGreaterThan :> <<">">>) @@
    (operatorGreaterThanOrEqual :> <<">", "=">>) @@
    (operatorLessThan :> <<"<">>) @@
    (operatorLessThanOrEqual :> <<"<", "=">>) @@
    (operatorLike :> <<"l", "i", "k", "e">>) @@
    (operatorNotLike :> <<"n", "o", "t", " ", "l", "i", "k", "e">>)

(***************************************************************************)
(* filter.go: universalFilterCondition.  Value is Go's `any`: nil, a       *)
(* scalar, a slice of scalars, or a slice of sub-conditions.  isNil marks  *)
(* a nil *universalFilterCondition.                                        *)
(***************************************************************************)
NilValue == [kind |-> "nil", scalar |-> 0, list |-> <<>>, conds |-> <<>>]
Scalar(v) == [kind |-> "scalar", scalar |-> v, list |-> <<>>, conds |-> <<>>]
List(l) == [kind |-> "list", scalar |-> 0, list |-> l, conds |-> <<>>]
Conds(cs) == [kind |-> "conds", scalar |-> 0, list |-> <<>>, conds |-> cs]

universalFilterCondition(field, operator, value) ==
    [isNil |-> FALSE, Field |-> field, Operator |-> operator, Value |-> value]

NilCondition ==
    [isNil |-> TRUE, Field |-> <<>>, Operator |-> <<>>, Value |-> NilValue]

\* reflect.ValueOf(v).Kind() == reflect.Slice
IsSlice(v) == v.kind \in {"list", "conds"}

\* reflect.ValueOf(v).Len() of a slice
SliceLen(v) == IF v.kind = "list" THEN Len(v.list) ELSE Len(v.conds)

(***************************************************************************)
(* filter.go: convertResult, with the error return and the counter that    *)
(* the Go code threads through a *int.                                     *)
(***************************************************************************)
NoParams == [n \in {} |-> NilValue]

convertError(counter) ==
    [err |-> TRUE, exprStr |-> <<>>, params |-> NoParams, counter |-> counter]

convertResult(exprStr, params, counter) ==
    [err |-> FALSE, exprStr |-> exprStr, params |-> params, counter |-> counter]

\* maps.Copy(dst, src)
MapsCopy(dst, src) ==
    [n \in (DOMAIN dst) \cup (DOMAIN src) |->
        IF n \in DOMAIN src THEN src[n] ELSE dst[n]]

\* convertParamName after its `*counter++`: counter is the incremented value
convertParamName(field, counter) ==
    ReplaceAll(field, ".", "_") \o <<"_">> \o Itoa(counter)

convertComparisonCondition(c, counter) ==
    IF c.Field = <<>> \/ c.Value.kind = "nil" THEN convertError(counter)
    ELSE IF c.Operator \notin DOMAIN comparisonOperators THEN convertError(counter)
    ELSE LET paramName == convertParamName(c.Field, counter + 1)
         IN convertResult(
                c.Field \o <<" ">> \o comparisonOperators[c.Operator]
                    \o <<" ", "{">> \o paramName \o <<"}">>,
                [n \in {paramName} |-> c.Value],
                counter + 1)

\* a membership conversion that takes any value
convertInConditionUnchecked(c, counter) ==
    IF c.Field = <<>> \/ c.Value.kind = "nil" THEN convertError(counter)
    ELSE LET paramName == convertParamName(c.Field, counter + 1)
         IN convertResult(
                c.Field \o <<" ">> \o ToLower(c.Operator)
                    \o <<" ", "{">> \o paramName \o <<"}">>,
                [n \in {paramName} |-> c.Value],
                counter + 1)

convertInCondition(c, counter) ==
    IF c.Field = <<>> \/ c.Value.kind = "nil" THEN convertError(counter)
    ELSE IF ~IsSlice(c.Value) \/ SliceLen(c.Value) <= 0 THEN convertError(counter)
    ELSE LET paramName == convertParamName(c.Field, counter + 1)
         IN convertResult(
                c.Field \o <<" ">> \o ToLower(c.Operator)
                    \o <<" ", "{">> \o paramName \o <<"}">>,
                [n \in {paramName} |-> c.Value],
                counter + 1)

\* SliceIndex reading element 0 whatever the index
SliceIndexFirst(v, i) ==
    IF v.kind = "list" THEN Scalar(v.list[1]) ELSE Conds(<<v.conds[1]>>)

\* value.Index(i).Interface() of a slice value
SliceIndex(v, i) ==
    IF v.kind = "list" THEN Scalar(v.list[i + 1]) ELSE Conds(<<v.conds[i + 1]>>)

convertBetweenCondition(c, counter) ==
    IF c.Field = <<>> \/ c.Value.kind = "nil" THEN convertError(counter)
    ELSE IF ~IsSlice(c.Value) \/ SliceLen(c.Value) # 2 THEN convertError(counter)
    ELSE LET paramBase == convertParamName(c.Field, counter + 1)
             paramName1 == paramBase \o <<"_">> \o Itoa(0)
             paramName2 == paramBase \o <<"_">> \o Itoa(1)
         IN convertResult(
                c.Field \o <<" ", ">", "=", " ", "{">> \o paramName1
                    \o <<"}", " ", "a", "n", "d", " ">>
                    \o c.Field \o <<" ", "<", "=", " ", "{">> \o paramName2 \o <<"}">>,
                [n \in {paramName1, paramName2} |->
                    IF n = paramName2 THEN SliceIndex(c.Value, 1)
                    ELSE SliceIndex(c.Value, 0)],
                counter + 1)

\* joinLogical without the parentheses around its operands
joinLogicalBare(left, operator, right) ==
    left \o <<" ">> \o ToLower(operator) \o <<" ">> \o right

\* the fmt.Sprintf("(%s) %s (%s)", ...) of convertLogicalCondition
joinLogical(left, operator, right) ==
    <<"(">> \o left \o <<")", " ">> \o ToLower(operator) \o <<" ", "(">>
        \o right \o <<")">>

RECURSIVE convertCondition(_, _)
RECURSIVE convertLogicalLoop(_, _, _, _, _, _)

\* the `for _, childCond := range conds` loop of convertLogicalCondition and
\* the check that follows it; hasResult is `condResult != nil`
convertLogicalLoop(conds, i, operator, counter, hasResult, condResult) ==
    IF i > Len(conds)
    THEN IF ~hasResult THEN convertError(counter)
         ELSE convertResult(condResult.exprStr, condResult.params, counter)
    ELSE LET childRes == convertCondition(conds[i], counter)
         IN IF childRes.err THEN convertError(childRes.counter)
            ELSE IF childRes.exprStr = <<>>
            THEN convertLogicalLoop(conds, i + 1, operator, childRes.counter,
                                    hasResult, condResult)
            ELSE IF ~hasResult
            THEN convertLogicalLoop(conds, i + 1, operator, childRes.counter,
                                    TRUE, childRes)
            ELSE convertLogicalLoop(conds, i + 1, operator, childRes.counter, TRUE,
                    convertResult(
                        joinLogical(condResult.exprStr, operator, childRes.exprStr),
                        MapsCopy(condResult.params, childRes.params),
                        childRes.counter))

\* a logical conversion that compiles a node without sub-conditions to the
\* empty expression
convertLogicalConditionLenient(c, counter) ==
    IF c.Value.kind # "conds" \/ Len(c.Value.conds) = 0
    THEN convertResult(<<>>, NoParams, counter)
    ELSE convertLogicalLoop(c.Value.conds, 1, c.Operator, counter, FALSE,
                            convertError(counter))

convertLogicalCondition(c, counter) ==
    IF c.Value.kind = "nil" THEN convertError(counter)
    ELSE IF c.Value.kind # "conds" THEN convertError(counter)
    ELSE convertLogicalLoop(c.Value.conds, 1, c.Operator, counter, FALSE,
                            convertError(counter))

convertCondition(c, counter) ==
    IF c.isNil THEN convertError(counter)
    ELSE IF c.Operator \in {operatorEqual, operatorNotEqual, operatorGreaterThan,
                            operatorGreaterThanOrEqual, operatorLessThan,
                            operatorLessThanOrEqual, operatorLike, operatorNotLike}
    THEN convertComparisonCondition(c, counter)
    ELSE IF c.Operator \in {operatorAnd, operatorOr}
    THEN convertLogicalCondition(c, counter)
    ELSE IF c.Operator \in {operatorIn, operatorNotIn}
    THEN convertInCondition(c, counter)
    ELSE IF c.Operator = operatorBetween
    THEN convertBetweenCondition(c, counter)
    ELSE convertError(counter)

\* filter.Convert: `var counter int` starts at 0
Convert(c) == convertCondition(c, 0)

(***************************************************************************)
(* The condition trees the filter specification compiles.                  *)
(***************************************************************************)
MaxLit == 2
Lits == 1..MaxLit

fieldA == <<"a">>
fieldA2 == <<"a", "_", "2">>
fieldADotB == <<"a", ".", "b">>
fieldAUnderB == <<"a", "_", "b">>
Fields == {fieldA, fieldA2, fieldADotB, fieldAUnderB}

ComparisonOps == DOMAIN comparisonOperators
MembershipOps == {operatorIn, operatorNotIn}
LogicalOps == {operatorAnd, operatorOr}

ComparisonLeaves ==
    {universalFilterCondition(f, op, Scalar(v)) :
        f \in Fields, op \in ComparisonOps, v \in Lits}

MembershipLeaves ==
    {universalFilterCondition(f, op, List(l)) :
        f \in {fieldA, fieldADotB}, op \in MembershipOps,
        l \in {<<v>> : v \in Lits} \cup {<<1, 2>>}}

BetweenLeaves ==
    {universalFilterCondition(f, operatorBetween, List(<<lo, hi>>)) :
        f \in {fieldA, fieldA2}, lo \in Lits, hi \in Lits}

\* malformed nodes: each one is rejected by one check of the compiler
MalformedLeaves ==
    { NilCondition,
      universalFilterCondition(<<>>, operatorEqual, Scalar(1)),
      universalFilterCondition(fieldA, operatorEqual, NilValue),
      universalFilterCondition(<<>>, operatorIn, List(<<1>>)),
      universalFilterCondition(fieldA, operatorIn, NilValue),
      universalFilterCondition(fieldA, operatorIn, Scalar(1)),
      universalFilterCondition(fieldA, operatorNotIn, List(<<>>)),
      universalFilterCondition(<<>>, operatorBetween, List(<<1, 2>>)),
      universalFilterCondition(fieldA, operatorBetween, NilValue),
      universalFilterCondition(fieldA, operatorBetween, Scalar(1)),
      universalFilterCondition(fieldA, operatorBetween, List(<<1>>)),
      universalFilterCondition(fieldA, operatorBetween, List(<<1, 2, 1>>)),
      universalFilterCondition(fieldA, <<"A", "N", "D">>, Conds(<<>>)),
      universalFilterCondition(fieldA, <<"x">>, Scalar(1)),
      universalFilterCondition(<<>>, operatorAnd, NilValue),
      universalFilterCondition(<<>>, operatorOr, Scalar(1)),
      universalFilterCondition(<<>>, operatorAnd, List(<<1>>)),
      universalFilterCondition(<<>>, operatorOr, Conds(<<>>)) }

\* the leaves that appear below logical nodes
InnerLeaves ==
    { universalFilterCondition(fieldA, operatorEqual, Scalar(1)),
      universalFilterCondition(fieldA2, operatorEqual, Scalar(1)),
      universalFilterCondition(fieldADotB, operatorGreaterThan, Scalar(2)),
      universalFilterCondition(fieldAUnderB, operatorNotLike, Scalar(1)),
      universalFilterCondition(fieldA, operatorNotIn, List(<<1, 2>>)),
      universalFilterCondition(fieldA, operatorBetween, List(<<2, 2>>)),
      universalFilterCondition(fieldA, operatorEqual, NilValue) }

DeepLeaves ==
    { universalFilterCondition(fieldA, operatorLessThanOrEqual, Scalar(2)),
      universalFilterCondition(fieldA2, operatorEqual, Scalar(1)),
      universalFilterCondition(fieldA, operatorBetween, List(<<2, 2>>)) }

\* logical nodes over one to three children drawn from S
Logical(S, maxChildren) ==
    {universalFilterCondition(<<>>, op, Conds(cs)) :
        op \in LogicalOps,
        cs \in UNION {[1..n -> S] : n \in 1..maxChildren}}

Depth1 == Logical(InnerLeaves, 2) \cup Logical(DeepLeaves, 3)
Depth2 == Logical(DeepLeaves \cup Logical(DeepLeaves, 2), 2)

Conditions ==
    ComparisonLeaves \cup MembershipLeaves \cup BetweenLeaves
        \cup MalformedLeaves \cup Depth1 \cup Depth2

(***************************************************************************)
(* repository.go: names, rows and records                                  *)
(***************************************************************************)
\* the MILVUS_COLLECTION base name the repository was constructed with
collectionBaseName == <<"w">>

fieldContent == <<"c", "o", "n", "t", "e", "n", "t">>
fieldSourceID == <<"s", "o", "u", "r", "c", "e", "_", "i", "d">>
fieldChunkID == <<"c", "h", "u", "n", "k", "_", "i", "d">>
fieldKnowledgeID == <<"k", "n", "o", "w", "l", "e", "d", "g", "e", "_", "i", "d">>
fieldKnowledgeBaseID ==
    <<"k", "n", "o", "w", "l", "e", "d", "g", "e", "_", "b", "a", "s", "e", "_", "i", "d">>
fieldTagID == <<"t", "a", "g", "_", "i", "d">>

\* the column of a stored row that a field name of an expression denotes
ColumnOf ==
    (fieldContent :> "content") @@ (fieldSourceID :> "source_id") @@
    (fieldChunkID :> "chunk_id") @@ (fieldKnowledgeID :> "knowledge_id") @@
    (fieldKnowledgeBaseID :> "knowledge_base_id") @@ (fieldTagID :> "tag_id")

getCollectionName(dimension) ==
    collectionBaseName \o <<"_">> \o Itoa(dimension)

\* uuid.New().String() of the n-th identifier minted
UUIDString(n) == <<"u">> \o Itoa(n)

\* MilvusVectorEmbedding, keyed by its column names; id 0 is the unset ID
MilvusVectorEmbedding(id, content, sourceID, sourceType, chunkID, knowledgeID, knowledgeBaseID, tagID, embedding, isEnabled) ==
    [ id |-> id, content |-> content, source_id |-> sourceID,
      source_type |-> sourceType, chunk_id |-> chunkID,
      knowledge_id |-> knowledgeID, knowledge_base_id |-> knowledgeBaseID,
      tag_id |-> tagID, embedding |-> embedding, is_enabled |-> isEnabled ]

\* types.IndexInfo as the write path reads it
IndexInfo(content, sourceID, chunkID, knowledgeID, knowledgeBaseID, tagID) ==
    [ Content |-> content, SourceID |-> sourceID, SourceType |-> 0,
      ChunkID |-> chunkID, KnowledgeID |-> knowledgeID,
      KnowledgeBaseID |-> knowledgeBaseID, TagID |-> tagID ]

\* additionalParams: nil, or a map whose "embedding" entry maps source ids
\* to vectors
NilParams == [hasEmbedding |-> FALSE, embeddingMap |-> <<>>]
EmbeddingParams(m) == [hasEmbedding |-> TRUE, embeddingMap |-> m]

toMilvusVectorEmbedding(embedding, additionalParams) ==
    MilvusVectorEmbedding(0, embedding.Content, embedding.SourceID,
        embedding.SourceType, embedding.ChunkID, embedding.KnowledgeID,
        embedding.KnowledgeBaseID, embedding.TagID,
        IF additionalParams.hasEmbedding
              /\ embedding.SourceID \in DOMAIN additionalParams.embeddingMap
        THEN additionalParams.embeddingMap[embedding.SourceID]
        ELSE <<>>,
        TRUE)

(***************************************************************************)
(* The backing store, as the repository's calls see it.  A collection has  *)
(* the vector dimension its schema declares, a loaded flag and rows keyed  *)
(* by primary key.                                                         *)
(***************************************************************************)
StoreHasCollection(st, name) == name \in DOMAIN st

\* CreateCollection with the schema of ensureCollection (WithDim(dimension))
StoreCreateCollection(st, name, dimension) ==
    (name :> [dim |-> dimension, loaded |-> FALSE, rows |-> {}]) @@ st

\* LoadCollection followed by a completed Await
StoreLoadCollection(st, name) == [st EXCEPT ![name].loaded = TRUE]

\* an upsert is rejected as a whole unless the collection exists and every
\* vector has the dimension the schema declares
StoreAcceptsUpsert(st, name, rows) ==
    /\ name \in DOMAIN st
    /\ \A i \in 1..Len(rows) : Len(rows[i].embedding) = st[name].dim

\* an upsert that replaces the rows of the collection by the new ones
StoreUpsertClearing(st, name, rows) ==
    [st EXCEPT ![name].rows = {rows[i] : i \in 1..Len(rows)}]

StoreUpsert(st, name, rows) ==
    LET new == {rows[i] : i \in 1..Len(rows)}
    IN [st EXCEPT ![name].rows =
            {r \in @ : r.id \notin {x.id : x \in new}} \cup new]

\* a delete that drops the collection it has emptied
StoreDeleteDropping(st, name, column, ids) ==
    LET rows == {r \in st[name].rows : r[column] \notin ids}
    IN IF rows = {} THEN [n \in DOMAIN st \ {name} |-> st[n]]
       ELSE [st EXCEPT ![name].rows = rows]

\* Delete with WithStringIDs(column, ids)
StoreDelete(st, name, column, ids) ==
    [st EXCEPT ![name].rows = {r \in @ : r[column] \notin ids}]

(***************************************************************************)
(* The store's evaluation of a filter expression with template parameters: *)
(* the expressions Convert emits, parsed as the store parses them.         *)
(***************************************************************************)
\* index of the first occurrence of character ch in e at or after i, or 0
IndexFrom(e, ch, i) ==
    LET found == {j \in i..Len(e) : e[j] = ch}
    IN IF found = {} THEN 0
       ELSE CHOOSE j \in found : \A k \in found : j <= k

\* index of the ")" that closes the "(" at position 1
ClosingParen(e, i, depth) ==
    LET opened(j) == Cardinality({k \in i..j : e[k] = "("})
        closed(j) == Cardinality({k \in i..j : e[k] = ")"})
        found == {j \in i..Len(e) :
                    e[j] = ")" /\ depth + opened(j) - closed(j) = 0}
    IN IF found = {} THEN 0
       ELSE CHOOSE j \in found : \A k \in found : j <= k

SetOfSeq(l) == {l[i] : i \in 1..Len(l)}

\* "<field> <op> {<param>}" on one row
EvalLeaf(e, params, row) ==
    LET sp == IndexFrom(e, " ", 1)
        open == IndexFrom(e, "{", 1)
        field == SubSeq(e, 1, sp - 1)
        op == SubSeq(e, sp + 1, open - 2)
        value == params[SubSeq(e, open + 1, Len(e) - 1)]
        x == row[ColumnOf[field]]
    IN CASE op = <<"=", "=">> -> x = value.scalar
         [] op = <<"!", "=">> -> x # value.scalar
         [] op = <<"i", "n">> -> x \in SetOfSeq(value.list)
         [] op = <<"n", "o", "t", " ", "i", "n">> -> x \notin SetOfSeq(value.list)
         [] OTHER -> FALSE

RECURSIVE EvalExpr(_, _, _)
EvalExpr(e, params, row) ==
    IF e[1] = "("
    THEN LET close == ClosingParen(e, 1, 0)
             left == SubSeq(e, 2, close - 1)
             open == IndexFrom(e, "(", close + 1)
             keyword == SubSeq(e, close + 2, open - 2)
             right == SubSeq(e, open + 1, Len(e) - 1)
         IN IF keyword = operatorOr
            THEN EvalExpr(left, params, row) \/ EvalExpr(right, params, row)
            ELSE EvalExpr(left, params, row) /\ EvalExpr(right, params, row)
    ELSE EvalLeaf(e, params, row)

\* the rows of a collection that an expression selects ("" selects all)
StoreSelect(st, name, e, params) ==
    {r \in st[name].rows : e = <<>> \/ EvalExpr(e, params, r)}

(***************************************************************************)
(* repository.go: the operations.  Each takes the repository and store     *)
(* state as a context, appends the store calls it issues to ctx.calls, and *)
(* returns the context it leaves with its error result.  `fail` holds the  *)
(* positions (in the call's own sequence of store calls) of the store      *)
(* calls that the store answers with an error.                             *)
(***************************************************************************)
Context(st, ca, n) ==
    [store |-> st, cache |-> ca, nextID |-> n, calls |-> <<>>, visited |-> <<>>]

Call(ctx, name) == [ctx EXCEPT !.calls = Append(@, name)]

\* a loop over the listed collections has passed its name test for name
Visit(ctx, name) == [ctx EXCEPT !.visited = Append(@, name)]

\* whether the store fails the next call issued from ctx
CallFails(ctx, fail) == (Len(ctx.calls) + 1) \in fail

Return(ctx, err) == [ctx |-> ctx, err |-> err, results |-> <<>>]

\* the statement sequence `x := e; F(x)`: e is evaluated once
Bind(e, F(_)) == CHOOSE out \in {F(x) : x \in {e}} : TRUE

\* the part of ensureCollection after HasCollection answered: create when
\* missing, then load and wait
\* a creation that does not look at the answer of HasCollection
createAndLoadAlways(c1, collectionName, dimension, fail) ==
    IF CallFails(c1, fail) THEN Return(Call(c1, "CreateCollection"), TRUE)
    ELSE Bind([Call(c1, "CreateCollection") EXCEPT
                 !.store = StoreCreateCollection(@, collectionName, dimension)],
              LAMBDA c2 :
                Return([Call(Call(c2, "LoadCollection"), "Await") EXCEPT
                          !.store = StoreLoadCollection(@, collectionName),
                          !.cache = @ \cup {dimension}],
                       FALSE))

createAndLoad(c1, collectionName, dimension, fail) ==
    LET hasCollection == StoreHasCollection(c1.store, collectionName)
        createFails == ~hasCollection /\ CallFails(c1, fail)
    IN IF createFails THEN Return(Call(c1, "CreateCollection"), TRUE)
       ELSE Bind(IF hasCollection THEN c1
                 ELSE [Call(c1, "CreateCollection") EXCEPT
                         !.store = StoreCreateCollection(@, collectionName,
                                                         dimension)],
                 LAMBDA c2 :
                   IF CallFails(c2, fail)
                   THEN Return(Call(c2, "LoadCollection"), TRUE)
                   ELSE Bind(Call(c2, "LoadCollection"),
                             LAMBDA c3 :
                               IF CallFails(c3, fail)
                               THEN Return(Call(c3, "Await"), TRUE)
                               ELSE Return([Call(c3, "Await") EXCEPT
                                       !.store = StoreLoadCollection(@, collectionName),
                                       !.cache = @ \cup {dimension}],
                                     FALSE)))

\* ensureCollection marking the dimension before the existence check
ensureCollectionMarkingFirst(ctx, dimension, fail) ==
    IF dimension \in ctx.cache THEN Return(ctx, FALSE)
    ELSE IF CallFails(ctx, fail)
    THEN Return([Call(ctx, "HasCollection") EXCEPT !.cache = @ \cup {dimension}],
                TRUE)
    ELSE createAndLoad(Call(ctx, "HasCollection"), getCollectionName(dimension),
                       dimension, fail)

\* an ensureCollection that does not consult the cache
ensureCollectionUncached(ctx, dimension, fail) ==
    IF CallFails(ctx, fail) THEN Return(Call(ctx, "HasCollection"), TRUE)
    ELSE createAndLoad(Call(ctx, "HasCollection"), getCollectionName(dimension),
                       dimension, fail)

ensureCollection(ctx, dimension, fail) ==
    IF dimension \in ctx.cache THEN Return(ctx, FALSE)
    ELSE IF CallFails(ctx, fail) THEN Return(Call(ctx, "HasCollection"), TRUE)
    ELSE createAndLoad(Call(ctx, "HasCollection"), getCollectionName(dimension),
                       dimension, fail)

\* an upsert that reports success and stores nothing
UpsertLost(ctx, collectionName, rows, fail) ==
    Return(Call(ctx, "Upsert"), CallFails(ctx, fail))

\* m.client.Upsert(ctx, createUpsert(collectionName, rows)) and its error
Upsert(ctx, collectionName, rows, fail) ==
    IF CallFails(ctx, fail) \/ ~StoreAcceptsUpsert(ctx.store, collectionName, rows)
    THEN Return(Call(ctx, "Upsert"), TRUE)
    ELSE Return([Call(ctx, "Upsert") EXCEPT
                    !.store = StoreUpsert(@, collectionName, rows)], FALSE)

\* a Save that does not check the embedding
SaveUnchecked(ctx, embedding, additionalParams, fail) ==
    Bind(toMilvusVectorEmbedding(embedding, additionalParams),
         LAMBDA embeddingDB :
           Bind(ensureCollection(ctx, Len(embeddingDB.embedding), fail),
                LAMBDA e :
                  IF e.err THEN e
                  ELSE Upsert([e.ctx EXCEPT !.nextID = @ + 1],
                              getCollectionName(Len(embeddingDB.embedding)),
                              <<[embeddingDB EXCEPT !.id = e.ctx.nextID + 1]>>,
                              fail)))

Save(ctx, embedding, additionalParams, fail) ==
    Bind(toMilvusVectorEmbedding(embedding, additionalParams),
         LAMBDA embeddingDB :
           IF Len(embeddingDB.embedding) = 0 THEN Return(ctx, TRUE)
           ELSE Bind(ensureCollection(ctx, Len(embeddingDB.embedding), fail),
                     LAMBDA e :
                       IF e.err THEN e
                       ELSE Upsert([e.ctx EXCEPT !.nextID = @ + 1],
                                   getCollectionName(Len(embeddingDB.embedding)),
                                   <<[embeddingDB EXCEPT !.id = e.ctx.nextID + 1]>>,
                                   fail)))

\* the part the three Delete variants share: one filtered delete
\* a delete that removes the listed rows from every collection
deleteByColumnEverywhere(ctx, column, idList, dimension, fail) ==
    LET collectionName == getCollectionName(dimension)
    IN IF CallFails(ctx, fail) \/ ~StoreHasCollection(ctx.store, collectionName)
       THEN Return(Call(ctx, "Delete"), TRUE)
       ELSE Return([Call(ctx, "Delete") EXCEPT
                      !.store = [n \in DOMAIN @ |->
                                   [@[n] EXCEPT !.rows =
                                      {r \in @ : r[column] \notin SetOfSeq(idList)}]]],
                   FALSE)

deleteByColumn(ctx, column, idList, dimension, fail) ==
    LET collectionName == getCollectionName(dimension)
    IN IF CallFails(ctx, fail) \/ ~StoreHasCollection(ctx.store, collectionName)
       THEN Return(Call(ctx, "Delete"), TRUE)
       ELSE Return([Call(ctx, "Delete") EXCEPT
                      !.store = StoreDelete(@, collectionName, column,
                                            SetOfSeq(idList))], FALSE)

\* a delete that goes to the store whatever the list holds
DeleteByChunkIDListAlways(ctx, chunkIDList, dimension, fail) ==
    deleteByColumn(ctx, "chunk_id", chunkIDList, dimension, fail)

DeleteByChunkIDList(ctx, chunkIDList, dimension, fail) ==
    IF Len(chunkIDList) = 0 THEN Return(ctx, FALSE)
    ELSE deleteByColumn(ctx, "chunk_id", chunkIDList, dimension, fail)

DeleteByKnowledgeIDList(ctx, knowledgeIDList, dimension, fail) ==
    IF Len(knowledgeIDList) = 0 THEN Return(ctx, FALSE)
    ELSE deleteByColumn(ctx, "knowledge_id", knowledgeIDList, dimension, fail)

DeleteBySourceIDList(ctx, sourceIDList, dimension, fail) ==
    IF Len(sourceIDList) = 0 THEN Return(ctx, FALSE)
    ELSE deleteByColumn(ctx, "source_id", sourceIDList, dimension, fail)

\* the rows of a set in primary-key order, the order in which the store
\* pages through them
SortedByID(S) ==
    Bind(S,
         LAMBDA rows :
           Bind([r \in rows |-> Cardinality({x \in rows : x.id < r.id})],
                LAMBDA before :
                  [i \in 1..Cardinality(rows) |->
                      CHOOSE r \in rows : before[r] = i - 1]))

\* convertResultSet: every column is copied into the documents, the
\* embedding column only when it asserts to *column.ColumnDoubleArray
convertResultSet(rows) ==
    [i \in 1..Len(rows) |->
        IF embeddingIsDoubleArray THEN rows[i]
        ELSE [rows[i] EXCEPT !.embedding = <<>>]]

\* searchByFilter: the converted rows of one Query, and ResultCount
searchByFilter(ctx, collectionName, filter, useLimit, limit, offset, fail) ==
    Bind(Convert(filter),
         LAMBDA f :
           IF f.err THEN [ctx |-> ctx, err |-> TRUE, rows |-> <<>>, count |-> 0]
           ELSE IF \/ CallFails(ctx, fail)
                   \/ ~StoreHasCollection(ctx.store, collectionName)
                   \/ ~ctx.store[collectionName].loaded
           THEN [ctx |-> Call(ctx, "Query"), err |-> TRUE, rows |-> <<>>,
                 count |-> 0]
           ELSE Bind(SortedByID(StoreSelect(ctx.store, collectionName,
                                            f.exprStr, f.params)),
                     LAMBDA all :
                       LET from == IF offset < Len(all) THEN offset + 1
                                   ELSE Len(all) + 1
                           to == IF useLimit /\ offset + limit < Len(all)
                                 THEN offset + limit ELSE Len(all)
                       IN [ctx |-> Call(ctx, "Query"), err |-> FALSE,
                           rows |-> convertResultSet(SubSeq(all, from, to)),
                           count |-> to - from + 1]))

(***************************************************************************)
(* repository.go: retrieval                                                *)
(***************************************************************************)
\* types.RetrieveParams
RetrieveParams(embedding, topK, threshold, knowledgeBaseIDs, knowledgeIDs, tagIDs, excludeKnowledgeIDs, excludeChunkIDs, query) ==
    [ Query |-> query, Embedding |-> embedding, TopK |-> topK, Threshold |-> threshold,
      KnowledgeBaseIDs |-> knowledgeBaseIDs, KnowledgeIDs |-> knowledgeIDs,
      TagIDs |-> tagIDs, ExcludeKnowledgeIDs |-> excludeKnowledgeIDs,
      ExcludeChunkIDs |-> excludeChunkIDs ]

\* the `if len(list) > 0 { filters = append(filters, ...) }` of
\* getBaseFilterForQuery
appendFilter(filters, field, operator, list) ==
    IF Len(list) > 0
    THEN Append(filters, universalFilterCondition(field, operator, List(list)))
    ELSE filters

\* a base filter that leaves out the excluded knowledge ids
getBaseFilterForQueryKeepingExcluded(params) ==
    LET f1 == appendFilter(<<>>, fieldKnowledgeBaseID, operatorIn,
                           params.KnowledgeBaseIDs)
        f2 == appendFilter(f1, fieldKnowledgeID, operatorIn, params.KnowledgeIDs)
        f3 == appendFilter(f2, fieldTagID, operatorIn, params.TagIDs)
        filters == appendFilter(f3, fieldChunkID, operatorNotIn,
                                params.ExcludeChunkIDs)
    IN IF Len(filters) = 0 THEN convertResult(<<>>, NoParams, 0)
       ELSE Convert(universalFilterCondition(<<>>, operatorAnd, Conds(filters)))

getBaseFilterForQuery(params) ==
    LET f1 == appendFilter(<<>>, fieldKnowledgeBaseID, operatorIn,
                           params.KnowledgeBaseIDs)
        f2 == appendFilter(f1, fieldKnowledgeID, operatorIn, params.KnowledgeIDs)
        f3 == appendFilter(f2, fieldTagID, operatorIn, params.TagIDs)
        f4 == appendFilter(f3, fieldKnowledgeID, operatorNotIn,
                           params.ExcludeKnowledgeIDs)
        filters == appendFilter(f4, fieldChunkID, operatorNotIn,
                                params.ExcludeChunkIDs)
    IN IF Len(filters) = 0 THEN convertResult(<<>>, NoParams, 0)
       ELSE Convert(universalFilterCondition(<<>>, operatorAnd, Conds(filters)))

\* inner product, the metric of the HNSW index (entity.IP)
RECURSIVE InnerProduct(_, _)
InnerProduct(a, b) ==
    IF Len(a) = 0 \/ Len(b) = 0 THEN 0
    ELSE a[1] * b[1] + InnerProduct(Tail(a), Tail(b))

\* the answers the store may give to a top-K search: the K best-scoring rows
\* among those the expression selects (above the radius, when one is set),
\* best first, ties in any order
StoreSearch(st, name, topK, query, useRadius, radius, e, params) ==
    LET score(r) == InnerProduct(query, r.embedding)
    IN Bind({r \in StoreSelect(st, name, e, params) :
                 ~useRadius \/ score(r) > radius},
            LAMBDA cands :
              LET k == IF topK < Cardinality(cands) THEN topK
                       ELSE Cardinality(cands)
              IN { [i \in 1..k |-> [row |-> a[i], score |-> score(a[i])]] :
                   a \in { b \in [1..k -> cands] :
                             /\ \A i, j \in 1..k : i < j =>
                                   b[i] # b[j] /\ score(b[i]) >= score(b[j])
                             /\ \A r \in cands \ {b[i] : i \in 1..k} :
                                   \A i \in 1..k : score(r) <= score(b[i]) } })

\* a conversion that drops the score
fromMilvusVectorEmbeddingUnscored(id, embedding, score, matchType) ==
    [ ID |-> id, SourceID |-> embedding.source_id,
      SourceType |-> embedding.source_type, ChunkID |-> embedding.chunk_id,
      KnowledgeID |-> embedding.knowledge_id,
      KnowledgeBaseID |-> embedding.knowledge_base_id,
      TagID |-> embedding.tag_id, Content |-> embedding.content,
      Score |-> 0, MatchType |-> matchType ]

\* fromMilvusVectorEmbedding
fromMilvusVectorEmbedding(id, embedding, score, matchType) ==
    [ ID |-> id, SourceID |-> embedding.source_id,
      SourceType |-> embedding.source_type, ChunkID |-> embedding.chunk_id,
      KnowledgeID |-> embedding.knowledge_id,
      KnowledgeBaseID |-> embedding.knowledge_base_id,
      TagID |-> embedding.tag_id, Content |-> embedding.content,
      Score |-> score, MatchType |-> matchType ]

\* a search that is never given a radius
VectorSearchAnswersNoRadius(st, params) ==
    LET collectionName == getCollectionName(Len(params.Embedding))
    IN IF ~StoreHasCollection(st, collectionName) THEN {<<>>}
       ELSE IF ~st[collectionName].loaded THEN {<<>>}
       ELSE Bind(getBaseFilterForQuery(params),
                 LAMBDA f :
                   IF f.err THEN {<<>>}
                   ELSE StoreSearch(st, collectionName, params.TopK,
                                    params.Embedding, FALSE, params.Threshold,
                                    f.exprStr, f.params))

\* the answers the store may give to the Search of VectorRetrieve(params)
\* when that call is reached and not failed
VectorSearchAnswers(st, params) ==
    LET collectionName == getCollectionName(Len(params.Embedding))
    IN IF ~StoreHasCollection(st, collectionName) THEN {<<>>}
       ELSE IF ~st[collectionName].loaded THEN {<<>>}
       ELSE Bind(getBaseFilterForQuery(params),
                 LAMBDA f :
                   IF f.err THEN {<<>>}
                   ELSE StoreSearch(st, collectionName, params.TopK,
                                    params.Embedding, params.Threshold > 0,
                                    params.Threshold, f.exprStr, f.params))

\* a retrieval that searches without asking whether the collection exists
VectorRetrieveNoCheck(ctx, params, fail, answer) ==
    Return(Call(ctx, "Search"),
           \/ CallFails(ctx, fail)
           \/ ~StoreHasCollection(ctx.store,
                                  getCollectionName(Len(params.Embedding))))

VectorRetrieve(ctx, params, fail, answer) ==
    LET collectionName == getCollectionName(Len(params.Embedding))
    IN IF CallFails(ctx, fail) THEN Return(Call(ctx, "HasCollection"), TRUE)
       ELSE Bind(Call(ctx, "HasCollection"),
                 LAMBDA c1 :
                   IF ~StoreHasCollection(c1.store, collectionName)
                   THEN Return(c1, FALSE)
                   ELSE IF getBaseFilterForQuery(params).err THEN Return(c1, TRUE)
                   ELSE IF CallFails(c1, fail) \/ ~c1.store[collectionName].loaded
                   THEN Return(Call(c1, "Search"), TRUE)
                   ELSE Bind(convertResultSet([i \in 1..Len(answer) |->
                                                  answer[i].row]),
                             LAMBDA sets :
                               [ ctx |-> Call(c1, "Search"), err |-> FALSE,
                                 results |->
                                   [i \in 1..Len(sets) |->
                                       fromMilvusVectorEmbedding(sets[i].id,
                                           sets[i], answer[i].score,
                                           "embedding")] ]))

(***************************************************************************)
(* repository.go: BatchSave                                                *)
(***************************************************************************)
\* a grouping that keeps the records without embedding as a group
batchDimensionsWithEmpty(embeddingList, additionalParams) ==
    {Len(toMilvusVectorEmbedding(embeddingList[i], additionalParams).embedding) :
        i \in 1..Len(embeddingList)}

\* the keys of embeddingsByDimension
batchDimensions(embeddingList, additionalParams) ==
    {Len(toMilvusVectorEmbedding(embeddingList[i], additionalParams).embedding) :
        i \in 1..Len(embeddingList)} \ {0}

\* a grouping that puts every record with an embedding in every group
embeddingsOfAnyDimension(embeddingList, additionalParams, dimension) ==
    LET hasEmbedding(e) ==
            Len(toMilvusVectorEmbedding(e, additionalParams).embedding) > 0
    IN SelectSeq(embeddingList, hasEmbedding)

\* embeddingsByDimension[dimension]
embeddingsByDimension(embeddingList, additionalParams, dimension) ==
    LET ofDimension(e) ==
            Len(toMilvusVectorEmbedding(e, additionalParams).embedding) = dimension
    IN SelectSeq(embeddingList, ofDimension)

\* the loop of BatchSave giving every row of a group the same id
RECURSIVE batchSaveLoopOneID(_, _, _, _, _, _)
batchSaveLoopOneID(ctx, embeddingList, additionalParams, order, i, fail) ==
    IF i > Len(order) THEN Return(ctx, FALSE)
    ELSE
      Bind(ensureCollection(ctx, order[i], fail),
           LAMBDA e :
             IF e.err THEN e
             ELSE
               Bind(embeddingsByDimension(embeddingList, additionalParams,
                                          order[i]),
                    LAMBDA embeddings :
                      Bind(Upsert([e.ctx EXCEPT !.nextID = @ + Len(embeddings)],
                                  getCollectionName(order[i]),
                                  [j \in 1..Len(embeddings) |->
                                      [toMilvusVectorEmbedding(embeddings[j],
                                                               additionalParams)
                                          EXCEPT !.id = e.ctx.nextID + 1]],
                                  fail),
                           LAMBDA u :
                             IF u.err THEN u
                             ELSE batchSaveLoopOneID(u.ctx, embeddingList,
                                                     additionalParams, order,
                                                     i + 1, fail))))

\* the `for dimension, embeddings := range embeddingsByDimension` loop; order
\* is the order in which the Go map yields its keys
RECURSIVE batchSaveLoop(_, _, _, _, _, _)
batchSaveLoop(ctx, embeddingList, additionalParams, order, i, fail) ==
    IF i > Len(order) THEN Return(ctx, FALSE)
    ELSE
      Bind(ensureCollection(ctx, order[i], fail),
           LAMBDA e :
             IF e.err THEN e
             ELSE
               Bind(embeddingsByDimension(embeddingList, additionalParams,
                                          order[i]),
                    LAMBDA embeddings :
                      Bind(Upsert([e.ctx EXCEPT !.nextID = @ + Len(embeddings)],
                                  getCollectionName(order[i]),
                                  [j \in 1..Len(embeddings) |->
                                      [toMilvusVectorEmbedding(embeddings[j],
                                                               additionalParams)
                                          EXCEPT !.id = e.ctx.nextID + j]],
                                  fail),
                           LAMBDA u :
                             IF u.err THEN u
                             ELSE batchSaveLoop(u.ctx, embeddingList,
                                                additionalParams, order,
                                                i + 1, fail))))

\* a BatchSave that goes on to the next group after a failed one
BatchSaveBestEffort(ctx, embeddingList, additionalParams, order, fail) ==
    IF Len(order) = 0 THEN Return(ctx, FALSE)
    ELSE Bind(batchSaveLoop(ctx, embeddingList, additionalParams,
                            <<order[1]>>, 1, fail),
              LAMBDA g :
                IF Len(order) = 1 THEN g
                ELSE Bind(batchSaveLoop(g.ctx, embeddingList, additionalParams,
                                        <<order[2]>>, 1, fail),
                          LAMBDA h : [h EXCEPT !.err = g.err \/ h.err]))

BatchSave(ctx, embeddingList, additionalParams, order, fail) ==
    IF Len(embeddingList) = 0 THEN Return(ctx, FALSE)
    ELSE IF batchDimensions(embeddingList, additionalParams) = {}
    THEN Return(ctx, FALSE)
    ELSE batchSaveLoop(ctx, embeddingList, additionalParams, order, 1, fail)

(***************************************************************************)
(* repository.go: the batch field updaters                                 *)
(***************************************************************************)
\* some sequence holding the elements of a finite set, each once
RECURSIVE SeqOfSet(_)
SeqOfSet(S) ==
    IF S = {} THEN <<>>
    ELSE LET x == CHOOSE y \in S : TRUE IN <<x>> \o SeqOfSet(S \ {x})

\* a name test that leaves out the length
skipsCollectionByPrefix(collectionName) ==
    SubSeq(collectionName, 1, Len(collectionBaseName)) # collectionBaseName

\* `len(name) <= len(base) || name[:len(base)] != base`
skipsCollection(collectionName) ==
    \/ Len(collectionName) <= Len(collectionBaseName)
    \/ SubSeq(collectionName, 1, Len(collectionBaseName)) # collectionBaseName

\* a read-modify-write that writes the rows back without their content
updateGroupDroppingContent(ctx, collectionName, chunkIDs, column, value, fail) ==
    Bind(searchByFilter(ctx, collectionName,
             universalFilterCondition(fieldChunkID, operatorIn,
                                      List(SeqOfSet(chunkIDs))),
             FALSE, 0, 0, fail),
         LAMBDA s :
           IF s.err THEN Return(s.ctx, TRUE)
           ELSE IF Len(s.rows) > 0
           THEN Upsert(s.ctx, collectionName,
                       [i \in 1..Len(s.rows) |->
                           [s.rows[i] EXCEPT ![column] = value,
                                             !.content = <<>>]],
                       fail)
           ELSE Return(s.ctx, FALSE))

\* one read-modify-write of a group of chunk ids in one collection: search
\* by `chunk_id in ids`, set one column, upsert when rows were found
updateGroup(ctx, collectionName, chunkIDs, column, value, fail) ==
    Bind(searchByFilter(ctx, collectionName,
             universalFilterCondition(fieldChunkID, operatorIn,
                                      List(SeqOfSet(chunkIDs))),
             FALSE, 0, 0, fail),
         LAMBDA s :
           IF s.err THEN Return(s.ctx, TRUE)
           ELSE IF Len(s.rows) > 0
           THEN Upsert(s.ctx, collectionName,
                       [i \in 1..Len(s.rows) |->
                           [s.rows[i] EXCEPT ![column] = value]],
                       fail)
           ELSE Return(s.ctx, FALSE))

\* the `for _, collectionName := range collections` loop of
\* BatchUpdateChunkEnabledStatus: a failure in the enabled group `continue`s
\* to the next collection
RECURSIVE enabledStatusLoop(_, _, _, _, _, _)
enabledStatusLoop(ctx, collections, i, enabledChunkIDs, disabledChunkIDs, fail) ==
    IF i > Len(collections) THEN Return(ctx, FALSE)
    ELSE IF skipsCollection(collections[i])
    THEN enabledStatusLoop(ctx, collections, i + 1, enabledChunkIDs,
                           disabledChunkIDs, fail)
    ELSE Bind(updateGroup(Visit(ctx, collections[i]), collections[i],
                          enabledChunkIDs, "is_enabled", TRUE, fail),
              LAMBDA en :
                IF en.err
                THEN enabledStatusLoop(en.ctx, collections, i + 1,
                                       enabledChunkIDs, disabledChunkIDs, fail)
                ELSE Bind(updateGroup(en.ctx, collections[i], disabledChunkIDs,
                                      "is_enabled", FALSE, fail),
                          LAMBDA dis :
                            enabledStatusLoop(dis.ctx, collections, i + 1,
                                              enabledChunkIDs, disabledChunkIDs,
                                              fail)))

\* collections is the answer of ListCollections
BatchUpdateChunkEnabledStatus(ctx, chunkStatusMap, collections, fail) ==
    IF DOMAIN chunkStatusMap = {} THEN Return(ctx, FALSE)
    ELSE IF CallFails(ctx, fail) THEN Return(Call(ctx, "ListCollections"), TRUE)
    ELSE enabledStatusLoop(Call(ctx, "ListCollections"), collections, 1,
            {c \in DOMAIN chunkStatusMap : chunkStatusMap[c]},
            {c \in DOMAIN chunkStatusMap : ~chunkStatusMap[c]}, fail)

\* the `for tagID, chunkIDs := range tagGroups` loop: a failure `continue`s
\* to the next tag group
RECURSIVE tagGroupLoop(_, _, _, _, _, _)
tagGroupLoop(ctx, collectionName, chunkTagMap, tags, j, fail) ==
    IF j > Len(tags) THEN ctx
    ELSE Bind(updateGroup(ctx, collectionName,
                  {c \in DOMAIN chunkTagMap : chunkTagMap[c] = tags[j]},
                  "tag_id", tags[j], fail),
              LAMBDA g :
                tagGroupLoop(g.ctx, collectionName, chunkTagMap, tags, j + 1,
                             fail))

RECURSIVE tagIDLoop(_, _, _, _, _, _)
tagIDLoop(ctx, collections, i, chunkTagMap, tags, fail) ==
    IF i > Len(collections) THEN Return(ctx, FALSE)
    ELSE IF skipsCollection(collections[i])
    THEN tagIDLoop(ctx, collections, i + 1, chunkTagMap, tags, fail)
    ELSE Bind(tagGroupLoop(Visit(ctx, collections[i]), collections[i],
                           chunkTagMap, tags, 1, fail),
              LAMBDA c : tagIDLoop(c, collections, i + 1, chunkTagMap, tags,
                                   fail))

\* BatchUpdateChunkTagID reporting a failed read or upsert of a group
BatchUpdateChunkTagIDStrict(ctx, chunkTagMap, collections, tags, fail) ==
    IF DOMAIN chunkTagMap = {} THEN Return(ctx, FALSE)
    ELSE IF CallFails(ctx, fail) THEN Return(Call(ctx, "ListCollections"), TRUE)
    ELSE Bind(tagIDLoop(Call(ctx, "ListCollections"), collections, 1,
                        chunkTagMap, tags, fail),
              LAMBDA out :
                [out EXCEPT !.err = (fail \cap (1..Len(out.ctx.calls)) # {})])

\* tags is the order in which the Go map tagGroups yields its keys
BatchUpdateChunkTagID(ctx, chunkTagMap, collections, tags, fail) ==
    IF DOMAIN chunkTagMap = {} THEN Return(ctx, FALSE)
    ELSE IF CallFails(ctx, fail) THEN Return(Call(ctx, "ListCollections"), TRUE)
    ELSE tagIDLoop(Call(ctx, "ListCollections"), collections, 1, chunkTagMap,
                   tags, fail)

(***************************************************************************)
(* repository.go: KeywordsRetrieve                                         *)
(***************************************************************************)
\* the full-text match of the store on the content field: the content and
\* the query share a term (the terms of the model are the characters)
KeywordMatches(content, query) ==
    \E i \in 1..Len(content), j \in 1..Len(query) : content[i] = query[j]

\* the answers the store may give to a top-K full-text search of one
\* collection: K of the matching rows the expression selects, in the order
\* of the relevance the store computes
StoreKeywordSearch(st, name, topK, query, e, params) ==
    Bind({r \in StoreSelect(st, name, e, params) :
              KeywordMatches(r.content, query)},
         LAMBDA cands :
           LET k == IF topK < Cardinality(cands) THEN topK
                    ELSE Cardinality(cands)
           IN { a \in [1..k -> cands] :
                  \A i, j \in 1..k : i < j => a[i] # a[j] })

\* the answers the store may give to the searches of KeywordsRetrieve, one
\* for each collection of the list
KeywordSearchAnswers(st, params, collections) ==
    Bind(getBaseFilterForQuery(params),
         LAMBDA f :
           { a \in [1..Len(collections) ->
                      UNION { IF f.err \/ ~st[name].loaded THEN {<<>>}
                              ELSE StoreKeywordSearch(st, name, params.TopK,
                                       params.Query, f.exprStr, f.params) :
                              name \in DOMAIN st } \cup {<<>>}] :
               \A i \in 1..Len(collections) :
                   a[i] \in (IF f.err \/ ~st[collections[i]].loaded THEN {<<>>}
                             ELSE StoreKeywordSearch(st, collections[i],
                                      params.TopK, params.Query, f.exprStr,
                                      f.params)) })

\* the `for _, collectionName := range collections` loop of
\* KeywordsRetrieve: a failed search `continue`s to the next collection
RECURSIVE keywordsLoop(_, _, _, _, _, _, _)
keywordsLoop(ctx, params, collections, i, answers, fail, allResults) ==
    IF i > Len(collections)
    THEN [ctx |-> ctx, err |-> FALSE, results |-> allResults]
    ELSE IF skipsCollection(collections[i])
    THEN keywordsLoop(ctx, params, collections, i + 1, answers, fail, allResults)
    ELSE IF getBaseFilterForQuery(params).err
    THEN keywordsLoop(Visit(ctx, collections[i]), params, collections, i + 1,
                      answers, fail, allResults)
    ELSE IF CallFails(ctx, fail) \/ ~ctx.store[collections[i]].loaded
    THEN keywordsLoop(Call(Visit(ctx, collections[i]), "Search"), params,
                      collections, i + 1, answers, fail, allResults)
    ELSE Bind(convertResultSet(answers[i]),
              LAMBDA sets :
                keywordsLoop(Call(Visit(ctx, collections[i]), "Search"), params,
                             collections, i + 1, answers, fail,
                             allResults \o
                               [j \in 1..Len(sets) |->
                                   fromMilvusVectorEmbedding(sets[j].id, sets[j],
                                                             1, "keywords")]))

\* a retrieval that fails when one of its searches fails
KeywordsRetrieveFailFast(ctx, params, collections, answers, fail) ==
    IF CallFails(ctx, fail) THEN Return(Call(ctx, "ListCollections"), TRUE)
    ELSE Bind(keywordsLoop(Call(ctx, "ListCollections"), params, collections, 1,
                           answers, fail, <<>>),
              LAMBDA k :
                IF fail \cap (1..Len(k.ctx.calls)) # {} THEN Return(k.ctx, TRUE)
                ELSE [k EXCEPT !.results = IF Len(@) > params.TopK
                                           THEN SubSeq(@, 1, params.TopK) ELSE @])

\* a retrieval that returns all it collected
KeywordsRetrieveUntruncated(ctx, params, collections, answers, fail) ==
    IF CallFails(ctx, fail) THEN Return(Call(ctx, "ListCollections"), TRUE)
    ELSE keywordsLoop(Call(ctx, "ListCollections"), params, collections, 1,
                      answers, fail, <<>>)

\* collections is the answer of ListCollections, answers[i] that of the
\* search of collections[i]
KeywordsRetrieve(ctx, params, collections, answers, fail) ==
    IF CallFails(ctx, fail) THEN Return(Call(ctx, "ListCollections"), TRUE)
    ELSE Bind(keywordsLoop(Call(ctx, "ListCollections"), params, collections, 1,
                           answers, fail, <<>>),
              LAMBDA k :
                [k EXCEPT !.results = IF Len(@) > params.TopK
                                      THEN SubSeq(@, 1, params.TopK) ELSE @])

(***************************************************************************)
(* repository.go: CopyIndices                                              *)
(***************************************************************************)
batchSize == 64

\* strings.TrimPrefix(s, p) of a string that has the prefix
TrimPrefix(s, p) == SubSeq(s, Len(p) + 1, Len(s))

\* a source id rule that keeps the old chunk id in front of the suffix
targetSourceIDKeepingPrefix(originalSourceID, sourceChunkID, targetChunkID, n) ==
    IF originalSourceID = sourceChunkID THEN targetChunkID
    ELSE IF HasPrefix(originalSourceID, sourceChunkID \o <<"-">>)
    THEN targetChunkID \o <<"-">> \o originalSourceID
    ELSE UUIDString(n + 1)

\* `var targetSourceID string` and the three branches that set it, with n
\* identifiers minted so far
targetSourceID(originalSourceID, sourceChunkID, targetChunkID, n) ==
    IF originalSourceID = sourceChunkID THEN targetChunkID
    ELSE IF HasPrefix(originalSourceID, sourceChunkID \o <<"-">>)
    THEN targetChunkID \o <<"-">>
           \o TrimPrefix(originalSourceID, sourceChunkID \o <<"-">>)
    ELSE UUIDString(n + 1)

\* a target row that does not carry the tag of its source row
targetEmbeddingUntagged(id, sourceEmbedding, sourceID, targetChunkID, targetKnowledgeID, targetKnowledgeBaseID) ==
    MilvusVectorEmbedding(id, sourceEmbedding.content, sourceID,
        sourceEmbedding.source_type, targetChunkID, targetKnowledgeID,
        targetKnowledgeBaseID, <<>>, sourceEmbedding.embedding,
        sourceEmbedding.is_enabled)

\* `targetEmbedding := &MilvusVectorEmbedding{...}` of the copy
targetEmbedding(id, sourceEmbedding, sourceID, targetChunkID, targetKnowledgeID, targetKnowledgeBaseID) ==
    MilvusVectorEmbedding(id, sourceEmbedding.content, sourceID,
        sourceEmbedding.source_type, targetChunkID, targetKnowledgeID,
        targetKnowledgeBaseID, sourceEmbedding.tag_id,
        sourceEmbedding.embedding, sourceEmbedding.is_enabled)

\* the `for _, sourceEmbedding := range sourceEmbeddings` loop from n
\* identifiers minted: the target rows it builds, in the order of their
\* source rows, and the number of identifiers minted after it.  A row whose
\* chunk id or knowledge id is not in the tables is skipped; the others mint
\* a record id each, and a source id when theirs does not name the chunk.
copyRows(sourceEmbeddings, sourceToTargetKBIDMap, sourceToTargetChunkIDMap, targetKnowledgeBaseID, n) ==
    LET ok(i) == /\ sourceEmbeddings[i].chunk_id \in DOMAIN sourceToTargetChunkIDMap
                 /\ sourceEmbeddings[i].knowledge_id \in DOMAIN sourceToTargetKBIDMap
        minted(i) ==
            /\ ok(i)
            /\ sourceEmbeddings[i].source_id # sourceEmbeddings[i].chunk_id
            /\ ~HasPrefix(sourceEmbeddings[i].source_id,
                          sourceEmbeddings[i].chunk_id \o <<"-">>)
        mintedUpTo(i) == n + Cardinality({j \in 1..i : ok(j)})
                           + Cardinality({j \in 1..i : minted(j)})
        appended == SelectSeq([i \in 1..Len(sourceEmbeddings) |-> i], ok)
    IN [ targetEmbeddings |->
           [k \in 1..Len(appended) |->
              LET i == appended[k]
                  sourceEmbedding == sourceEmbeddings[i]
                  targetChunkID == sourceToTargetChunkIDMap[sourceEmbedding.chunk_id]
              IN targetEmbedding(mintedUpTo(i), sourceEmbedding,
                     targetSourceID(sourceEmbedding.source_id,
                                    sourceEmbedding.chunk_id, targetChunkID,
                                    mintedUpTo(i - 1)),
                     targetChunkID,
                     sourceToTargetKBIDMap[sourceEmbedding.knowledge_id],
                     targetKnowledgeBaseID)],
         nextID |-> mintedUpTo(Len(sourceEmbeddings)) ]

\* one pass of the pagination loop from offset: the context it leaves,
\* whether it returned an error, whether the loop goes on, and the next
\* offset; offset 0 stands for the nil offset of the first page
copyPage(ctx, collectionName, sourceKnowledgeBaseID, sourceToTargetKBIDMap, sourceToTargetChunkIDMap, targetKnowledgeBaseID, offset, fail) ==
    Bind(searchByFilter(ctx, collectionName,
             universalFilterCondition(fieldKnowledgeBaseID, operatorEqual,
                                      Scalar(sourceKnowledgeBaseID)),
             TRUE, batchSize, offset, fail),
         LAMBDA s :
           IF s.err \/ Len(s.rows) = 0
           THEN [ctx |-> s.ctx, err |-> s.err, more |-> FALSE, offset |-> offset]
           ELSE
             Bind(copyRows(s.rows, sourceToTargetKBIDMap,
                           sourceToTargetChunkIDMap, targetKnowledgeBaseID,
                           s.ctx.nextID),
                  LAMBDA t :
                    Bind(IF Len(t.targetEmbeddings) > 0
                         THEN Upsert([s.ctx EXCEPT !.nextID = t.nextID],
                                     collectionName, t.targetEmbeddings, fail)
                         ELSE Return([s.ctx EXCEPT !.nextID = t.nextID], FALSE),
                         LAMBDA u :
                           IF u.err \/ s.count < batchSize
                           THEN [ctx |-> u.ctx, err |-> u.err, more |-> FALSE,
                                 offset |-> offset]
                           ELSE [ctx |-> u.ctx, err |-> FALSE, more |-> TRUE,
                                 offset |-> offset + s.count])))

\* the pagination loop
RECURSIVE copyLoop(_, _, _, _, _, _, _, _)
copyLoop(ctx, collectionName, sourceKnowledgeBaseID, sourceToTargetKBIDMap, sourceToTargetChunkIDMap, targetKnowledgeBaseID, offset, fail) ==
    Bind(copyPage(ctx, collectionName, sourceKnowledgeBaseID,
                  sourceToTargetKBIDMap, sourceToTargetChunkIDMap,
                  targetKnowledgeBaseID, offset, fail),
         LAMBDA p :
           IF p.more
           THEN copyLoop(p.ctx, collectionName, sourceKnowledgeBaseID,
                         sourceToTargetKBIDMap, sourceToTargetChunkIDMap,
                         targetKnowledgeBaseID, p.offset, fail)
           ELSE Return(p.ctx, p.err))

CopyIndices(ctx, sourceKnowledgeBaseID, sourceToTargetKBIDMap, sourceToTargetChunkIDMap, targetKnowledgeBaseID, dimension, fail) ==
    IF DOMAIN sourceToTargetChunkIDMap = {} THEN Return(ctx, FALSE)
    ELSE Bind(ensureCollection(ctx, dimension, fail),
              LAMBDA e :
                IF e.err THEN e
                ELSE copyLoop(e.ctx, getCollectionName(dimension),
                              sourceKnowledgeBaseID, sourceToTargetKBIDMap,
                              sourceToTargetChunkIDMap, targetKnowledgeBaseID,
                              0, fail))

(***************************************************************************)
(* The calls the repository specification issues                           *)
(***************************************************************************)
MaxID == 2          \* identifiers minted in one behaviour
MaxFailAt == 3      \* a store call up to this position may be failed
MaxBatchFailAt == 5 \* the same for the store calls of a batch update
MaxTopK == 2

contentT == <<"t">>
chunkC1 == <<"c", "1">>
chunkC2 == <<"c", "2">>
chunkD1 == <<"d", "1">>
chunkD2 == <<"d", "2">>
knowledgeK1 == <<"k", "1">>
knowledgeK2 == <<"k", "2">>
knowledgeN1 == <<"n", "1">>
knowledgeN2 == <<"n", "2">>
baseA == <<"A">>
baseB == <<"B">>
tagT1 == <<"t", "1">>
tagT2 == <<"t", "2">>

IndexInfos1 == IndexInfo(contentT, chunkC1, chunkC1, knowledgeK1, baseA, tagT1)

IndexInfos ==
    { IndexInfos1,
      IndexInfo(contentT, chunkC2 \o <<"-", "q">>, chunkC2, knowledgeK2, baseA, tagT1),
      IndexInfo(contentT, <<"s">>, chunkC1, knowledgeK1, baseB, tagT2) }

Vectors == { <<1>>, <<2>>, <<1, 1>> }
Dimensions == {Len(v) : v \in Vectors}

\* no failure, or one failed store call
FailSets == {{}} \cup {{k} : k \in 1..MaxFailAt}

\* the same for a batch update, which lists, then reads and writes a group,
\* then reads and writes the next
BatchFailSets == {{}} \cup {{k} : k \in 1..MaxBatchFailAt}

\* the same for an operation that issues at most n store calls
FailsWithin(n) == {fail \in FailSets : \A k \in fail : k <= n}

Orderings(S) ==
    {p \in [1..Cardinality(S) -> S] :
        \A i, j \in 1..Cardinality(S) : i # j => p[i] # p[j]}

ChunkIDLists == { <<>>, <<chunkC1>>, <<chunkC1, chunkC2>> }
KnowledgeIDLists == { <<>>, <<knowledgeK1>> }
SourceIDLists == { <<>>, <<chunkC1>> }

NoRetrieveParams == RetrieveParams(<<>>, 0, 0, <<>>, <<>>, <<>>, <<>>, <<>>, <<>>)

NoArgs ==
    [ dimension |-> 0, ids |-> <<>>, records |-> <<>>,
      additionalParams |-> NilParams, params |-> NoRetrieveParams,
      source |-> <<>>, target |-> <<>>, knowledgeMap |-> <<>>,
      chunkMap |-> <<>>, statusMap |-> <<>>, tagMap |-> <<>>,
      order |-> <<>>, collections |-> <<>>, answers |-> <<>> ]

NoCall ==
    [ op |-> "none", args |-> NoArgs, fail |-> {}, err |-> FALSE,
      calls |-> <<>>, visited |-> <<>>, results |-> <<>>, store |-> <<>>,
      cache |-> {} ]

\* the step of one repository call with outcome out; last keeps the call,
\* what it answered and the store and cache it started from
Does(op, args, fail, out) ==
    /\ last = NoCall
    /\ \E o \in {out} :
        /\ o.ctx.nextID <= MaxID
        /\ store' = o.ctx.store
        /\ cache' = o.ctx.cache
        /\ nextID' = o.ctx.nextID
        /\ last' = [ op |-> op, args |-> args,
                     fail |-> fail \cap (1..Len(o.ctx.calls)),
                     err |-> o.err, calls |-> o.ctx.calls,
                     visited |-> o.ctx.visited,
                     results |-> o.results, store |-> store, cache |-> cache ]
    /\ UNCHANGED <<embeddingIsDoubleArray, filterVars, callerVars, copy>>

Here == Context(store, cache, nextID)

SaveCall ==
    /\ last = NoCall
    /\ \E info \in IndexInfos, v \in Vectors \cup {<<>>}, fail \in FailSets :
        LET additionalParams == EmbeddingParams(info.SourceID :> v)
        IN Does("Save",
                [NoArgs EXCEPT !.records = <<info>>,
                               !.additionalParams = additionalParams],
                fail, Save(Here, info, additionalParams, fail))

\* the records of the batches: none, one, or two different ones
BatchLists ==
    { <<>> } \cup { <<info>> : info \in IndexInfos }
             \cup { <<IndexInfos1, info>> : info \in IndexInfos \ {IndexInfos1} }

\* the embeddings a batch carries: one of each dimension, or none
BatchVectors == { <<1>>, <<1, 1>>, <<>> }

BatchSaveCall ==
    /\ last = NoCall
    /\ \E embeddingList \in BatchLists, fail \in FailSets :
        \E m \in [{embeddingList[i].SourceID : i \in 1..Len(embeddingList)}
                    -> BatchVectors] :
          LET additionalParams == EmbeddingParams(m)
          IN \E order \in Orderings(batchDimensions(embeddingList, additionalParams)) :
               Does("BatchSave",
                    [NoArgs EXCEPT !.records = embeddingList,
                                   !.additionalParams = additionalParams,
                                   !.order = order],
                    fail,
                    BatchSave(Here, embeddingList, additionalParams, order, fail))

\* the dimensions calls name: those of the vectors and one never written
CallDimensions == Dimensions \cup {3}

DeleteByChunkIDListCall ==
    /\ last = NoCall
    /\ \E chunkIDList \in ChunkIDLists, dimension \in CallDimensions,
       fail \in FailsWithin(1) :
        Does("DeleteByChunkIDList",
             [NoArgs EXCEPT !.ids = chunkIDList, !.dimension = dimension],
             fail, DeleteByChunkIDList(Here, chunkIDList, dimension, fail))

DeleteByKnowledgeIDListCall ==
    /\ last = NoCall
    /\ \E knowledgeIDList \in KnowledgeIDLists, dimension \in CallDimensions,
       fail \in FailsWithin(1) :
        Does("DeleteByKnowledgeIDList",
             [NoArgs EXCEPT !.ids = knowledgeIDList, !.dimension = dimension],
             fail, DeleteByKnowledgeIDList(Here, knowledgeIDList, dimension, fail))

DeleteBySourceIDListCall ==
    /\ last = NoCall
    /\ \E sourceIDList \in SourceIDLists, dimension \in CallDimensions,
       fail \in FailsWithin(1) :
        Does("DeleteBySourceIDList",
             [NoArgs EXCEPT !.ids = sourceIDList, !.dimension = dimension],
             fail, DeleteBySourceIDList(Here, sourceIDList, dimension, fail))

QueryVectors == { <<1>>, <<1, 1>>, <<1, 1, 1>> }

\* the filters of a retrieval: none, or one base and one excluded chunk
QueryFilters ==
    { [KnowledgeBaseIDs |-> <<>>, ExcludeChunkIDs |-> <<>>],
      [KnowledgeBaseIDs |-> <<baseA>>, ExcludeChunkIDs |-> <<chunkC2>>] }

VectorRetrieveCall ==
    /\ last = NoCall
    /\ \E embedding \in QueryVectors, topK \in 1..MaxTopK, threshold \in {0, 1},
          filters \in QueryFilters, fail \in FailsWithin(2) :
        LET params == RetrieveParams(embedding, topK, threshold,
                          filters.KnowledgeBaseIDs, <<>>, <<>>, <<>>,
                          filters.ExcludeChunkIDs, <<>>)
        IN \E answer \in VectorSearchAnswers(store, params) :
             Does("VectorRetrieve", [NoArgs EXCEPT !.params = params], fail,
                  VectorRetrieve(Here, params, fail, answer))

\* the queries of a keyword retrieval: one that matches the contents, one
\* that matches none
KeywordQueries == { contentT, <<"x">> }

KeywordsRetrieveCall ==
    /\ last = NoCall
    /\ \E query \in KeywordQueries, topK \in 1..MaxTopK,
          collections \in Orderings(DOMAIN store), fail \in FailSets :
        LET params == RetrieveParams(<<>>, topK, 0, <<>>, <<>>, <<>>, <<>>, <<>>,
                                     query)
        IN \E answers \in KeywordSearchAnswers(store, params, collections) :
             Does("KeywordsRetrieve",
                  [NoArgs EXCEPT !.params = params, !.collections = collections,
                                 !.answers = answers],
                  fail,
                  KeywordsRetrieve(Here, params, collections, answers, fail))

\* the status maps: empty, one chunk, two chunks alike, two chunks apart
ChunkStatusMaps ==
    { <<>>, (chunkC1 :> TRUE), (chunkC1 :> FALSE),
      (chunkC1 :> FALSE) @@ (chunkC2 :> FALSE),
      (chunkC1 :> TRUE) @@ (chunkC2 :> FALSE) }

\* the tag maps: empty, one chunk, two chunks alike, two chunks apart
ChunkTagMaps ==
    { <<>>, (chunkC1 :> tagT2),
      (chunkC1 :> tagT2) @@ (chunkC2 :> tagT2),
      (chunkC1 :> tagT2) @@ (chunkC2 :> tagT1) }

BatchUpdateChunkEnabledStatusCall ==
    /\ last = NoCall
    /\ \E chunkStatusMap \in ChunkStatusMaps,
       collections \in Orderings(DOMAIN store), fail \in BatchFailSets :
        Does("BatchUpdateChunkEnabledStatus",
             [NoArgs EXCEPT !.statusMap = chunkStatusMap,
                            !.collections = collections],
             fail,
             BatchUpdateChunkEnabledStatus(Here, chunkStatusMap, collections, fail))

BatchUpdateChunkTagIDCall ==
    /\ last = NoCall
    /\ \E chunkTagMap \in ChunkTagMaps,
       collections \in Orderings(DOMAIN store), fail \in BatchFailSets :
      \E tags \in Orderings({chunkTagMap[c] : c \in DOMAIN chunkTagMap}) :
        Does("BatchUpdateChunkTagID",
             [NoArgs EXCEPT !.tagMap = chunkTagMap, !.collections = collections,
                            !.order = tags],
             fail,
             BatchUpdateChunkTagID(Here, chunkTagMap, collections, tags, fail))

\* const nlist and const metadataBytes of calculateStorageSize
nlist == 16384
metadataBytes == 32

\* calculateStorageSize: the payload strings it adds up, the source type,
\* the vector, the index heuristic and the per-row metadata
calculateStorageSize(embedding) ==
    LET payloadSizeBytes ==
            Len(embedding.content) + Len(embedding.source_id)
                + Len(embedding.chunk_id) + Len(embedding.knowledge_id)
                + Len(embedding.knowledge_base_id) + 8
        dimensions == Len(embedding.embedding)
        vectorSizeBytes == dimensions * 4
        indexBytes == dimensions * (nlist * 4 + 4)
    IN payloadSizeBytes + vectorSizeBytes + indexBytes + metadataBytes

\* the `for _, embedding := range indexInfoList` loop of EstimateStorageSize
RECURSIVE totalStorageSize(_, _, _)
totalStorageSize(indexInfoList, params, i) ==
    IF i > Len(indexInfoList) THEN 0
    ELSE calculateStorageSize(toMilvusVectorEmbedding(indexInfoList[i], params))
            + totalStorageSize(indexInfoList, params, i + 1)

EstimateStorageSize(ctx, indexInfoList, params) ==
    [Return(ctx, FALSE) EXCEPT
        !.results = <<totalStorageSize(indexInfoList, params, 1)>>]

\* the lists sized: those of the batches and a record without a tag
EstimateLists ==
    BatchLists
        \cup { <<IndexInfo(contentT, chunkC1, chunkC1, knowledgeK1, baseA, <<>>)>> }

\* the params of a sizing: nil, or an embedding for every record, or for
\* the first record only
EstimateParams(indexInfoList) ==
    { NilParams }
        \cup { EmbeddingParams([s \in {indexInfoList[i].SourceID :
                                         i \in 1..Len(indexInfoList)} |-> v]) :
                 v \in {<<1>>, <<1, 1>>} }
        \cup { EmbeddingParams(indexInfoList[i].SourceID :> <<1>>) :
                 i \in {1} \cap DOMAIN indexInfoList }

EstimateStorageSizeCall ==
    /\ last = NoCall
    /\ \E indexInfoList \in EstimateLists :
        \E params \in EstimateParams(indexInfoList) :
          Does("EstimateStorageSize",
               [NoArgs EXCEPT !.records = indexInfoList,
                              !.additionalParams = params],
               {}, EstimateStorageSize(Here, indexInfoList, params))

\* the remap tables of a copy: knowledge ids and chunk ids
RemapTables ==
    { [knowledge |-> (knowledgeK1 :> knowledgeN1), chunk |-> (chunkC1 :> chunkD1)],
      [knowledge |-> (knowledgeK1 :> knowledgeN1) @@ (knowledgeK2 :> knowledgeN2),
       chunk |-> (chunkC1 :> chunkD1) @@ (chunkC2 :> chunkD2)],
      [knowledge |-> (knowledgeK1 :> knowledgeN1) @@ (knowledgeK2 :> knowledgeN2),
       chunk |-> <<>>] }

CopyIndicesCall ==
    /\ last = NoCall
    /\ \E targetKnowledgeBaseID \in {baseA, baseB}, tables \in RemapTables,
          dimension \in Dimensions, fail \in FailSets :
        Does("CopyIndices",
             [NoArgs EXCEPT !.source = baseA, !.target = targetKnowledgeBaseID,
                            !.knowledgeMap = tables.knowledge,
                            !.chunkMap = tables.chunk,
                            !.dimension = dimension],
             fail,
             CopyIndices(Here, baseA, tables.knowledge, tables.chunk,
                         targetKnowledgeBaseID, dimension, fail))

(***************************************************************************)
(* Specification of the filter compiler: one Convert call on a tree.       *)
(***************************************************************************)
NoResult == convertError(0)

RepoIdle ==
    /\ store = <<>>
    /\ cache = {}
    /\ nextID = 0
    /\ embeddingIsDoubleArray = TRUE
    /\ last = NoCall

\* no CopyIndices call is being followed
NoCopy ==
    [ pc |-> "idle", args |-> NoArgs, offset |-> 0, pages |-> 0,
      failedPages |-> {}, err |-> FALSE, start |-> <<>>, before |-> <<>> ]

CallersIdle ==
    /\ copy = NoCopy
    /\ pc = <<>>
    /\ dim = <<>>
    /\ has = <<>>
    /\ eret = <<>>

InitFilter ==
    /\ cond \in Conditions
    /\ fres = NoResult
    /\ fpc = "input"
    /\ RepoIdle
    /\ CallersIdle

ConvertCall ==
    /\ fpc = "input"
    /\ fres' = Convert(cond)
    /\ fpc' = "done"
    /\ UNCHANGED <<cond, repoVars, callerVars, copy>>

NextFilter == ConvertCall

SpecFilter == InitFilter /\ [][NextFilter]_vars

(***************************************************************************)
(* Specification of the repository: calls issued one after the other on a  *)
(* store that starts empty.                                                *)
(***************************************************************************)
FilterIdle ==
    /\ cond = NilCondition
    /\ fres = NoResult
    /\ fpc = "idle"

Init ==
    /\ store = <<>>
    /\ cache = {}
    /\ nextID = 0
    /\ embeddingIsDoubleArray \in BOOLEAN
    /\ last = NoCall
    /\ FilterIdle
    /\ CallersIdle

\* the caller has taken the answer of the call
Returned ==
    /\ last # NoCall
    /\ last' = NoCall
    /\ UNCHANGED <<store, cache, nextID, embeddingIsDoubleArray, filterVars,
                   callerVars, copy>>

Next ==
    \/ SaveCall
    \/ BatchSaveCall
    \/ DeleteByChunkIDListCall
    \/ DeleteByKnowledgeIDListCall
    \/ DeleteBySourceIDListCall
    \/ VectorRetrieveCall
    \/ KeywordsRetrieveCall
    \/ BatchUpdateChunkEnabledStatusCall
    \/ BatchUpdateChunkTagIDCall
    \/ CopyIndicesCall
    \/ EstimateStorageSizeCall
    \/ Returned

Spec == Init /\ [][Next]_vars

(***************************************************************************)
(* Specification of concurrent ensureCollection calls: every caller runs   *)
(* the function statement by statement against the shared store and the    *)
(* shared cache; the store answers every call, and answers a               *)
(* CreateCollection for a name that already exists either with an          *)
(* already-exists conflict or, the schemas being equal, with success.      *)
(***************************************************************************)
NumCallers == 2

Callers == 1..NumCallers

InitEnsure ==
    /\ store = <<>>
    /\ cache = {}
    /\ nextID = 0
    /\ embeddingIsDoubleArray = TRUE
    /\ last = NoCall
    /\ FilterIdle
    /\ pc = [p \in Callers |-> "call"]
    /\ dim = [p \in Callers |-> 0]
    /\ has = [p \in Callers |-> FALSE]
    /\ eret = [p \in Callers |-> "pending"]
    /\ copy = NoCopy

\* `if _, ok := m.initializedCollections.Load(dimension); ok { return nil }`
CheckCache(p) ==
    /\ pc[p] = "call"
    /\ \E dimension \in Dimensions :
         /\ dim' = [dim EXCEPT ![p] = dimension]
         /\ IF dimension \in cache
            THEN pc' = [pc EXCEPT ![p] = "done"] /\ eret' = [eret EXCEPT ![p] = "nil"]
            ELSE pc' = [pc EXCEPT ![p] = "HasCollection"] /\ UNCHANGED eret
    /\ UNCHANGED <<has, repoVars, filterVars, copy>>

\* `hasCollection, err := m.client.HasCollection(...)`
HasCollection(p) ==
    /\ pc[p] = "HasCollection"
    /\ has' = [has EXCEPT ![p] = StoreHasCollection(store, getCollectionName(dim[p]))]
    /\ pc' = [pc EXCEPT ![p] = IF has'[p] THEN "LoadCollection"
                                ELSE "CreateCollection"]
    /\ UNCHANGED <<dim, eret, repoVars, filterVars, copy>>

\* `err = m.client.CreateCollection(...)` on a name no one has created
CreateCollection(p) ==
    /\ pc[p] = "CreateCollection"
    /\ ~StoreHasCollection(store, getCollectionName(dim[p]))
    /\ store' = StoreCreateCollection(store, getCollectionName(dim[p]), dim[p])
    /\ pc' = [pc EXCEPT ![p] = "LoadCollection"]
    /\ UNCHANGED <<dim, has, eret, cache, nextID, embeddingIsDoubleArray, last,
                   filterVars, copy>>

\* the same on a name another caller created meanwhile, answered with a
\* conflict: `return fmt.Errorf("failed to create collection: %w", err)`
CreateCollectionConflict(p) ==
    /\ pc[p] = "CreateCollection"
    /\ StoreHasCollection(store, getCollectionName(dim[p]))
    /\ pc' = [pc EXCEPT ![p] = "done"]
    /\ eret' = [eret EXCEPT ![p] = "error"]
    /\ UNCHANGED <<dim, has, repoVars, filterVars, copy>>

\* the same, answered with success
CreateCollectionAgain(p) ==
    /\ pc[p] = "CreateCollection"
    /\ StoreHasCollection(store, getCollectionName(dim[p]))
    /\ pc' = [pc EXCEPT ![p] = "LoadCollection"]
    /\ UNCHANGED <<dim, has, eret, repoVars, filterVars, copy>>

\* a load call that marks the dimension before the wait
LoadCollectionThenMark(p) ==
    /\ pc[p] = "LoadCollection"
    /\ pc' = [pc EXCEPT ![p] = "Await"]
    /\ cache' = cache \cup {dim[p]}
    /\ UNCHANGED <<dim, has, eret, store, nextID, embeddingIsDoubleArray, last,
                   filterVars, copy>>

\* `loadTask, err := m.client.LoadCollection(...)`
LoadCollection(p) ==
    /\ pc[p] = "LoadCollection"
    /\ pc' = [pc EXCEPT ![p] = "Await"]
    /\ UNCHANGED <<dim, has, eret, repoVars, filterVars, copy>>

\* `loadTask.Await(ctx)`
Await(p) ==
    /\ pc[p] = "Await"
    /\ store' = StoreLoadCollection(store, getCollectionName(dim[p]))
    /\ pc' = [pc EXCEPT ![p] = "Store"]
    /\ UNCHANGED <<dim, has, eret, cache, nextID, embeddingIsDoubleArray, last,
                   filterVars, copy>>

\* `m.initializedCollections.Store(dimension, true); return nil`
MarkInitialized(p) ==
    /\ pc[p] = "Store"
    /\ cache' = cache \cup {dim[p]}
    /\ pc' = [pc EXCEPT ![p] = "done"]
    /\ eret' = [eret EXCEPT ![p] = "nil"]
    /\ UNCHANGED <<dim, has, store, nextID, embeddingIsDoubleArray, last,
                   filterVars, copy>>

NextEnsure ==
    \E p \in Callers :
        \/ CheckCache(p)
        \/ HasCollection(p)
        \/ CreateCollection(p)
        \/ CreateCollectionConflict(p)
        \/ CreateCollectionAgain(p)
        \/ LoadCollection(p)
        \/ Await(p)
        \/ MarkInitialized(p)

SpecEnsure == InitEnsure /\ [][NextEnsure]_vars

(***************************************************************************)
(* Specification of one CopyIndices call, one pass of its pagination loop  *)
(* at a time, on a collection that earlier Save calls have filled.         *)
(***************************************************************************)
MaxPages == 4       \* passes of the pagination loop that are followed

\* the numbers of rows of the source collection: one row, one full page,
\* one full page and one row
SourceSizes == {1, batchSize, batchSize + 1}

\* the row the i-th Save wrote: a chunk's own row, a row of a question of a
\* chunk, or a row whose source id does not name its chunk, in turn
SavedRow(i) ==
    LET info == CASE i % 3 = 1 -> IndexInfos1
                  [] i % 3 = 2 ->
                       IndexInfo(contentT, chunkC2 \o <<"-", "q">>, chunkC2,
                                 knowledgeK2, baseA, tagT1)
                  [] OTHER ->
                       IndexInfo(contentT, <<"s">>, chunkC1, knowledgeK1, baseA,
                                 tagT2)
    IN [toMilvusVectorEmbedding(info, EmbeddingParams(info.SourceID :> <<1>>))
          EXCEPT !.id = i]

\* the remap tables of the copy that is followed: those of the repository
\* calls, and one that maps every id to itself
CopyTables ==
    RemapTables \cup
    { [knowledge |-> (knowledgeK1 :> knowledgeK1) @@ (knowledgeK2 :> knowledgeK2),
       chunk |-> (chunkC1 :> chunkC1) @@ (chunkC2 :> chunkC2)] }

InitCopy ==
    /\ \E n \in SourceSizes :
         /\ store = (getCollectionName(1) :>
                       [dim |-> 1, loaded |-> TRUE,
                        rows |-> {SavedRow(i) : i \in 1..n}])
         /\ nextID = n
    /\ cache \in SUBSET {1}
    /\ embeddingIsDoubleArray \in BOOLEAN
    /\ last = NoCall
    /\ FilterIdle
    /\ pc = <<>>
    /\ dim = <<>>
    /\ has = <<>>
    /\ eret = <<>>
    /\ copy = NoCopy

\* CopyIndices up to its pagination loop: the empty-mapping return and
\* ensureCollection
CopyStart ==
    /\ copy.pc = "idle"
    /\ \E targetKnowledgeBaseID \in {baseA, baseB}, tables \in CopyTables,
          fail \in FailsWithin(1) :
        \E e \in {IF DOMAIN tables.chunk = {} THEN Return(Here, FALSE)
                  ELSE ensureCollection(Here, 1, fail)} :
           /\ store' = e.ctx.store
           /\ cache' = e.ctx.cache
           /\ copy' = [copy EXCEPT
                         !.pc = IF e.err \/ DOMAIN tables.chunk = {} THEN "done"
                                ELSE "page",
                         !.args = [NoArgs EXCEPT !.source = baseA,
                                                 !.target = targetKnowledgeBaseID,
                                                 !.knowledgeMap = tables.knowledge,
                                                 !.chunkMap = tables.chunk,
                                                 !.dimension = 1],
                         !.err = e.err, !.start = e.ctx.store,
                         !.before = e.ctx.store]
    /\ UNCHANGED <<nextID, embeddingIsDoubleArray, last, filterVars, pc, dim, has,
                   eret>>

\* one pass of the pagination loop; the store may fail its Query or its
\* Upsert
CopyPage ==
    /\ copy.pc = "page"
    /\ copy.pages < MaxPages
    /\ \E fail \in FailsWithin(2) :
        \E p \in {copyPage(Here, getCollectionName(copy.args.dimension),
                            copy.args.source, copy.args.knowledgeMap,
                            copy.args.chunkMap, copy.args.target, copy.offset,
                            fail)} :
           /\ store' = p.ctx.store
           /\ nextID' = p.ctx.nextID
           /\ copy' = [copy EXCEPT
                         !.pc = IF p.more THEN "page" ELSE "done",
                         !.offset = p.offset,
                         !.pages = @ + 1,
                         !.failedPages = IF p.err THEN @ \cup {copy.pages + 1}
                                         ELSE @,
                         !.err = p.err,
                         !.before = store]
    /\ UNCHANGED <<cache, embeddingIsDoubleArray, last, filterVars, pc, dim, has,
                   eret>>

NextCopy ==
    \/ CopyStart
    \/ CopyPage

SpecCopy == InitCopy /\ [][NextCopy]_vars

\* the same with weak fairness of the call's steps: the loop runs in the
\* caller's goroutine, each pass as soon as the one before has ended
SpecCopyLive == SpecCopy /\ WF_vars(NextCopy)

(***************************************************************************)
(* Specification of a store shared with other users: next to the           *)
(* repository's collection it lists collections the repository did not     *)
(* create.  Retrievals and batch updates are issued against it.            *)
(***************************************************************************)
collectionExact == collectionBaseName
collectionPrefixed == collectionBaseName \o <<"z">>
collectionForeign == <<"v", "_", "1">>

\* a stored row of one of the records, with the id another user gave it
ForeignRow(info, id) ==
    [toMilvusVectorEmbedding(info, EmbeddingParams(info.SourceID :> <<1>>))
        EXCEPT !.id = id]

\* the answers of ListCollections: the four names in one order and in the
\* opposite one
SharedListings ==
    { <<collectionForeign, collectionExact, getCollectionName(1),
        collectionPrefixed>>,
      <<collectionPrefixed, getCollectionName(1), collectionExact,
        collectionForeign>> }

\* the filters of a retrieval: each of the five lists empty or not
SharedFilters ==
    { [KnowledgeBaseIDs |-> kb, KnowledgeIDs |-> k, TagIDs |-> t,
       ExcludeKnowledgeIDs |-> xk, ExcludeChunkIDs |-> xc] :
        kb \in {<<>>, <<baseA>>, <<baseA, baseB>>},
        k \in {<<>>, <<knowledgeK1>>}, t \in {<<>>, <<tagT1>>},
        xk \in {<<>>, <<knowledgeK2>>}, xc \in {<<>>, <<chunkC1>>} }

InitShared ==
    /\ store =
         (getCollectionName(1) :>
            [dim |-> 1, loaded |-> TRUE, rows |-> {SavedRow(1), SavedRow(2)}])
         @@ (collectionPrefixed :>
            [dim |-> 1, loaded |-> TRUE,
             rows |-> {ForeignRow(IndexInfo(contentT, <<"s">>, chunkC1,
                                            knowledgeK1, baseB, tagT1), 11)}])
         @@ (collectionExact :>
            [dim |-> 1, loaded |-> TRUE,
             rows |-> {ForeignRow(IndexInfos1, 12)}])
         @@ (collectionForeign :>
            [dim |-> 1, loaded |-> TRUE,
             rows |-> {ForeignRow(IndexInfos1, 13)}])
    /\ nextID = 2
    /\ cache \in SUBSET {1}
    /\ embeddingIsDoubleArray \in BOOLEAN
    /\ last = NoCall
    /\ FilterIdle
    /\ CallersIdle

SharedVectorRetrieve ==
    /\ last = NoCall
    /\ \E topK \in 1..MaxTopK, filters \in SharedFilters,
          fail \in FailsWithin(2) :
        LET params == RetrieveParams(<<1>>, topK, 0, filters.KnowledgeBaseIDs,
                          filters.KnowledgeIDs, filters.TagIDs,
                          filters.ExcludeKnowledgeIDs, filters.ExcludeChunkIDs,
                          <<>>)
        IN \E answer \in VectorSearchAnswers(store, params) :
             Does("VectorRetrieve", [NoArgs EXCEPT !.params = params], fail,
                  VectorRetrieve(Here, params, fail, answer))

\* the answers the store may give to the keyword search of one collection
SharedKeywordAnswers(params, name) ==
    Bind(getBaseFilterForQuery(params),
         LAMBDA f :
           IF f.err \/ ~store[name].loaded THEN {<<>>}
           ELSE StoreKeywordSearch(store, name, params.TopK, params.Query,
                                   f.exprStr, f.params))

SharedKeywordsRetrieve ==
    /\ last = NoCall
    /\ \E filters \in SharedFilters, collections \in SharedListings,
          fail \in FailsWithin(2) :
        LET params == RetrieveParams(<<>>, MaxTopK, 0, filters.KnowledgeBaseIDs,
                          filters.KnowledgeIDs, filters.TagIDs,
                          filters.ExcludeKnowledgeIDs, filters.ExcludeChunkIDs,
                          contentT)
        IN \E a1 \in SharedKeywordAnswers(params, collections[1]),
              a2 \in SharedKeywordAnswers(params, collections[2]),
              a3 \in SharedKeywordAnswers(params, collections[3]),
              a4 \in SharedKeywordAnswers(params, collections[4]) :
             Does("KeywordsRetrieve",
                  [NoArgs EXCEPT !.params = params, !.collections = collections,
                                 !.answers = <<a1, a2, a3, a4>>],
                  fail,
                  KeywordsRetrieve(Here, params, collections,
                                   <<a1, a2, a3, a4>>, fail))

SharedBatchUpdateChunkEnabledStatus ==
    /\ last = NoCall
    /\ \E chunkStatusMap \in ChunkStatusMaps, collections \in SharedListings,
          fail \in FailsWithin(2) :
        Does("BatchUpdateChunkEnabledStatus",
             [NoArgs EXCEPT !.statusMap = chunkStatusMap,
                            !.collections = collections],
             fail,
             BatchUpdateChunkEnabledStatus(Here, chunkStatusMap, collections, fail))

SharedBatchUpdateChunkTagID ==
    /\ last = NoCall
    /\ \E chunkTagMap \in ChunkTagMaps, collections \in SharedListings,
          fail \in FailsWithin(2) :
      \E tags \in Orderings({chunkTagMap[c] : c \in DOMAIN chunkTagMap}) :
        Does("BatchUpdateChunkTagID",
             [NoArgs EXCEPT !.tagMap = chunkTagMap, !.collections = collections,
                            !.order = tags],
             fail,
             BatchUpdateChunkTagID(Here, chunkTagMap, collections, tags, fail))

NextShared ==
    \/ SharedVectorRetrieve
    \/ SharedKeywordsRetrieve
    \/ SharedBatchUpdateChunkEnabledStatus
    \/ SharedBatchUpdateChunkTagID
    \/ Returned

SpecShared == InitShared /\ [][NextShared]_vars

(***************************************************************************)
(* Repository properties.  They are stated on the state a call leaves:     *)
(* last holds the call, its outcome and the store and cache it started     *)
(* from.                                                                   *)
(***************************************************************************)
Rows(st, name) == IF name \in DOMAIN st THEN st[name].rows ELSE {}

\* the record and the embedding of the Save that last holds
SavedInfo == last.args.records[1]
SavedEmbedding ==
    toMilvusVectorEmbedding(SavedInfo, last.args.additionalParams).embedding

\* a retrieval of the saved embedding with no threshold and no filters
SameEmbeddingQuery(topK) ==
    RetrieveParams(SavedEmbedding, topK, 0, <<>>, <<>>, <<>>, <<>>, <<>>, <<>>)

\* the retrieval result holds the saved record: same chunk id, knowledge
\* id and content, with the score of its row and match type "embedding"
ReturnsSaved(r) ==
    /\ ~r.err
    /\ \E i \in 1..Len(r.results) :
         /\ r.results[i].ChunkID = SavedInfo.ChunkID
         /\ r.results[i].KnowledgeID = SavedInfo.KnowledgeID
         /\ r.results[i].Content = SavedInfo.Content
         /\ \E row \in Rows(store, getCollectionName(Len(SavedEmbedding))) :
               /\ row.id = r.results[i].ID
               /\ r.results[i].Score = InnerProduct(SavedEmbedding, row.embedding)
         /\ r.results[i].MatchType = "embedding"

\* the rows of the collection that hold another record (another chunk id or
\* knowledge id or content)
OtherRecords ==
    {r \in Rows(store, getCollectionName(Len(SavedEmbedding))) :
        \/ r.chunk_id # SavedInfo.ChunkID
        \/ r.knowledge_id # SavedInfo.KnowledgeID
        \/ r.content # SavedInfo.Content}

\* those of them that score at least as high against the saved embedding
\* as the saved embedding itself
Rivals ==
    {r \in OtherRecords :
        InnerProduct(SavedEmbedding, r.embedding)
            >= InnerProduct(SavedEmbedding, SavedEmbedding)}

\* C6 as stated: after Save of a record with a non-empty embedding e has
\* returned success, a vector retrieval issued next with query e, any
\* top-K >= 1, no threshold and no filters succeeds and returns that record
\* with its score and match type "embedding".
C6_SaveThenRetrieveOriginal ==
    (last.op = "Save" /\ ~last.err) =>
        \A topK \in 1..MaxTopK :
            \A answer \in VectorSearchAnswers(store, SameEmbeddingQuery(topK)) :
                ReturnsSaved(VectorRetrieve(Here, SameEmbeddingQuery(topK), {},
                                            answer))

\* C6 amended: the same, when fewer than top-K rows of the collection that
\* hold another record score at least as high against e as e itself does.
C6_SaveThenRetrieveWithinTopK ==
    (last.op = "Save" /\ ~last.err) =>
        \A topK \in 1..MaxTopK :
            Cardinality(Rivals) < topK =>
              \A answer \in VectorSearchAnswers(store, SameEmbeddingQuery(topK)) :
                ReturnsSaved(VectorRetrieve(Here, SameEmbeddingQuery(topK), {},
                                            answer))

\* a successful Save into a collection that holds another record, which
\* scores lower than the saved one
C6_Witness ==
    /\ last.op = "Save"
    /\ ~last.err
    /\ Rivals = {}
    /\ OtherRecords # {}

\* the embedding BatchSave reads for record i of its list
BatchEmbedding(i) ==
    toMilvusVectorEmbedding(last.args.records[i],
                            last.args.additionalParams).embedding

\* C7: every row of every collection has an embedding of exactly the
\* collection's dimension, and the collection is named after that dimension;
\* a BatchSave that no store call fails returns success and leaves every
\* record that has an embedding in the collection of its own dimension, so
\* records of two lengths end in two collections.
C7_DimensionSharding ==
    /\ \A name \in DOMAIN store :
         /\ name = getCollectionName(store[name].dim)
         /\ \A r \in store[name].rows : Len(r.embedding) = store[name].dim
    /\ (last.op = "BatchSave" /\ last.fail = {}) =>
         /\ ~last.err
         /\ \A i \in 1..Len(last.args.records) :
              Len(BatchEmbedding(i)) > 0 =>
                \E r \in Rows(store, getCollectionName(Len(BatchEmbedding(i)))) :
                    /\ r.embedding = BatchEmbedding(i)
                    /\ r.source_id = last.args.records[i].SourceID
                    /\ r.chunk_id = last.args.records[i].ChunkID
                    /\ r \notin Rows(last.store,
                                     getCollectionName(Len(BatchEmbedding(i))))

\* a BatchSave of records of two embedding lengths has returned success
C7_Witness ==
    /\ last.op = "BatchSave"
    /\ ~last.err
    /\ \E i, j \in 1..Len(last.args.records) :
         /\ Len(BatchEmbedding(i)) > 0
         /\ Len(BatchEmbedding(j)) > 0
         /\ Len(BatchEmbedding(i)) # Len(BatchEmbedding(j))
    /\ \A d \in Dimensions : Rows(store, getCollectionName(d)) # {}

\* the collection a retrieval searches
QueriedCollection == getCollectionName(Len(last.args.params.Embedding))

\* C8: a vector retrieval for an embedding length that has no collection,
\* whose existence check the store answers, returns success with no match,
\* issues no Search, and leaves the collections and the cache as they were.
C8_RetrieveMissingCollection ==
    (/\ last.op = "VectorRetrieve"
     /\ ~StoreHasCollection(last.store, QueriedCollection)
     /\ last.fail = {}) =>
        /\ ~last.err
        /\ last.results = <<>>
        /\ last.calls = <<"HasCollection">>
        /\ store = last.store
        /\ cache = last.cache

\* such a retrieval has returned while another collection holds rows
C8_Witness ==
    /\ last.op = "VectorRetrieve"
    /\ ~StoreHasCollection(last.store, QueriedCollection)
    /\ last.fail = {}
    /\ \E name \in DOMAIN store : store[name].rows # {}

DeleteOps ==
    {"DeleteByChunkIDList", "DeleteByKnowledgeIDList", "DeleteBySourceIDList"}

\* C9: each Delete variant called with an empty id list returns success,
\* issues no store call and leaves the store and the cache as they were,
\* whatever the dimension argument.
C9_DeleteEmptyList ==
    (last.op \in DeleteOps /\ last.args.ids = <<>>) =>
        /\ ~last.err
        /\ last.calls = <<>>
        /\ store = last.store
        /\ cache = last.cache

\* a delete with an empty list has returned for a dimension whose
\* collection holds rows
C9_Witness ==
    /\ last.op = "DeleteByChunkIDList"
    /\ last.args.ids = <<>>
    /\ Rows(store, getCollectionName(last.args.dimension)) # {}

\* the rows of the source base that CopyIndices finds in the collection and
\* whose chunk id and knowledge id the remap tables hold
MappedSourceRows ==
    {r \in Rows(last.store, getCollectionName(last.args.dimension)) :
        /\ r.knowledge_base_id = last.args.source
        /\ r.chunk_id \in DOMAIN last.args.chunkMap
        /\ r.knowledge_id \in DOMAIN last.args.knowledgeMap}

\* the rows the call added
CopiedRows ==
    {r \in Rows(store, getCollectionName(last.args.dimension)) :
        \A x \in Rows(last.store, getCollectionName(last.args.dimension)) :
            x.id # r.id}

\* C10: with no store call failed, CopyIndices from base A to another base
\* B adds to B exactly one row for each row of A whose chunk id and
\* knowledge id are both in the remap tables, and none for any other row.
C10_CopyCreatesOneRowPerMappedRow ==
    (/\ last.op = "CopyIndices"
     /\ last.fail = {}
     /\ last.args.source # last.args.target) =>
        /\ Cardinality(CopiedRows) = Cardinality(MappedSourceRows)
        /\ \A r \in CopiedRows : r.knowledge_base_id = last.args.target
        /\ \A m \in MappedSourceRows :
             \E r \in CopiedRows :
                 /\ r.chunk_id = last.args.chunkMap[m.chunk_id]
                 /\ r.knowledge_id = last.args.knowledgeMap[m.knowledge_id]

(***************************************************************************)
(* CopyIndices: frame                                                      *)
(***************************************************************************)
\* the rows of a base in one collection
RowsOfBase(st, name, base) == {r \in Rows(st, name) : r.knowledge_base_id = base}

\* C11: CopyIndices from base A to another base B leaves the rows of A, in
\* every collection and with all their fields, as they were, whether the
\* call returns success or an error.
C11_CopyLeavesSourceRows ==
    (last.op = "CopyIndices" /\ last.args.source # last.args.target) =>
        \A name \in DOMAIN store \cup DOMAIN last.store :
            RowsOfBase(store, name, last.args.source)
                = RowsOfBase(last.store, name, last.args.source)

\* a copy from A to B has added rows to a collection that holds rows of A
C11_Witness ==
    /\ last.op = "CopyIndices"
    /\ last.args.source # last.args.target
    /\ ~last.err
    /\ CopiedRows # {}
    /\ RowsOfBase(store, getCollectionName(last.args.dimension),
                  last.args.source) # {}

(***************************************************************************)
(* VectorRetrieve: number, order and scores of the results                 *)
(***************************************************************************)
\* a retrieval with no filters and no threshold, every store call answered,
\* on a collection that exists and is loaded
PlainRetrieve ==
    /\ last.op = "VectorRetrieve"
    /\ last.fail = {}
    /\ last.args.params.Threshold = 0
    /\ last.args.params.KnowledgeBaseIDs = <<>>
    /\ last.args.params.ExcludeChunkIDs = <<>>
    /\ StoreHasCollection(last.store, QueriedCollection)
    /\ last.store[QueriedCollection].loaded

\* C12: such a retrieval on a collection of n rows returns min(top-K, n)
\* results, each a different row of the collection with the inner product
\* of the query and that row as its score, scores non-increasing.
C12_TopKOrderedByScore ==
    PlainRetrieve =>
        LET rows == Rows(last.store, QueriedCollection)
            n == Cardinality(rows)
            topK == last.args.params.TopK
            results == last.results
        IN /\ ~last.err
           /\ Len(results) = IF topK < n THEN topK ELSE n
           /\ \A i, j \in 1..Len(results) :
                i < j => /\ results[i].Score >= results[j].Score
                         /\ results[i].ID # results[j].ID
           /\ \A i \in 1..Len(results) :
                \E r \in rows :
                    /\ r.id = results[i].ID
                    /\ results[i].Score
                         = InnerProduct(last.args.params.Embedding, r.embedding)

\* such a retrieval has returned fewer results than the collection has rows,
\* the rows scoring differently
C12_Witness ==
    /\ PlainRetrieve
    /\ Len(last.results) = 1
    /\ \E r1, r2 \in Rows(last.store, QueriedCollection) :
         InnerProduct(last.args.params.Embedding, r1.embedding)
            > InnerProduct(last.args.params.Embedding, r2.embedding)

(***************************************************************************)
(* The batch field updaters                                                *)
(***************************************************************************)
\* the rows of every collection whose chunk id is a key of map m
RowsKeyedBy(m) ==
    {r \in UNION {Rows(store, name) : name \in DOMAIN store} :
        r.chunk_id \in DOMAIN m}

\* C13: after BatchUpdateChunkEnabledStatus(m), m not empty, has returned
\* with every store call answered, every row whose chunk id is a key of m
\* has isEnabled = m[chunk id].  Stated for a store whose reads return the
\* embedding column in the form convertResultSet reads, so that the rows it
\* writes back are complete.
C13_EnabledStatusApplied ==
    (/\ last.op = "BatchUpdateChunkEnabledStatus"
     /\ last.fail = {}
     /\ embeddingIsDoubleArray
     /\ DOMAIN last.args.statusMap # {}) =>
        \A r \in RowsKeyedBy(last.args.statusMap) :
            r.is_enabled = last.args.statusMap[r.chunk_id]

\* C14: after BatchUpdateChunkTagID(m), m not empty, has returned with
\* every store call answered, every row whose chunk id is a key of m has
\* tagId = m[chunk id].
C14_TagIDApplied ==
    (/\ last.op = "BatchUpdateChunkTagID"
     /\ last.fail = {}
     /\ DOMAIN last.args.tagMap # {}) =>
        \A r \in RowsKeyedBy(last.args.tagMap) :
            r.tag_id = last.args.tagMap[r.chunk_id]

\* C15: in BatchUpdateChunkEnabledStatus, when the one failed store call is
\* the read of the enabled group in the first collection, only that pair is
\* skipped: the disabled group of every collection is still written.
\* Stated for a store whose reads return the embedding column in the form
\* convertResultSet reads.
C15_FailureSkipsOnlyItsPair ==
    (/\ last.op = "BatchUpdateChunkEnabledStatus"
     /\ embeddingIsDoubleArray
     /\ last.fail = {2}
     /\ \E c \in DOMAIN last.args.statusMap : last.args.statusMap[c]) =>
        \A r \in RowsKeyedBy(last.args.statusMap) :
            ~last.args.statusMap[r.chunk_id] => ~r.is_enabled

(***************************************************************************)
(* BatchSave and Save: failures and empty embeddings                       *)
(***************************************************************************)
\* the rows a call added to the collection of a dimension
AddedRows(dimension) ==
    Rows(store, getCollectionName(dimension))
        \ Rows(last.store, getCollectionName(dimension))

\* the records of the batch that have an embedding of a dimension
BatchRecordsOf(dimension) ==
    {i \in 1..Len(last.args.records) : Len(BatchEmbedding(i)) = dimension}

\* record i of the batch was stored by the call in the collection of its
\* dimension
BatchStored(i) ==
    \E r \in AddedRows(Len(BatchEmbedding(i))) :
        /\ r.embedding = BatchEmbedding(i)
        /\ r.source_id = last.args.records[i].SourceID
        /\ r.chunk_id = last.args.records[i].ChunkID

\* the number of dimension groups whose upsert succeeded
GroupsSaved ==
    Cardinality({k \in 1..Len(last.calls) :
                    last.calls[k] = "Upsert" /\ k \notin last.fail})

\* C16: BatchSave returns an error exactly when a store call of some
\* group's ensureCollection or upsert failed; that failed call is the last
\* store call it issues; the groups before it keep their rows and the
\* failed group and the groups after it add none.
C16_BatchSaveFailFast ==
    (last.op = "BatchSave") =>
        /\ last.err <=> last.fail # {}
        /\ last.err => last.fail = {Len(last.calls)}
        /\ \A name \in DOMAIN last.store :
              Rows(last.store, name) \subseteq Rows(store, name)
        /\ \A g \in 1..Len(last.args.order) :
              IF g <= GroupsSaved
              THEN \A i \in BatchRecordsOf(last.args.order[g]) : BatchStored(i)
              ELSE AddedRows(last.args.order[g]) = {}

\* a BatchSave of two groups has failed in the second one, after the first
\* was stored
C16_Witness ==
    /\ last.op = "BatchSave"
    /\ last.err
    /\ Len(last.args.order) = 2
    /\ GroupsSaved = 1
    /\ AddedRows(last.args.order[1]) # {}

\* C17: a BatchSave whose store calls are all answered returns success,
\* stores every record that has an embedding and adds no other row; a
\* BatchSave of no record, or of records without embedding only, returns
\* success without a store call.
C17_BatchSaveSkipsEmpty ==
    (last.op = "BatchSave") =>
        /\ last.fail = {} =>
              /\ ~last.err
              /\ \A i \in 1..Len(last.args.records) :
                    Len(BatchEmbedding(i)) > 0 => BatchStored(i)
              /\ \A name \in DOMAIN store :
                    \A r \in Rows(store, name) \ Rows(last.store, name) :
                        /\ Len(r.embedding) > 0
                        /\ \E i \in 1..Len(last.args.records) :
                              /\ r.embedding = BatchEmbedding(i)
                              /\ r.source_id = last.args.records[i].SourceID
              /\ Cardinality(UNION {Rows(store, name) \ Rows(last.store, name) :
                                        name \in DOMAIN store})
                    = Cardinality({i \in 1..Len(last.args.records) :
                                      Len(BatchEmbedding(i)) > 0})
        /\ (\A i \in 1..Len(last.args.records) : Len(BatchEmbedding(i)) = 0) =>
              /\ ~last.err
              /\ last.calls = <<>>
              /\ store = last.store
              /\ cache = last.cache

\* a BatchSave of one record with and one without embedding has returned
\* success
C17_Witness ==
    /\ last.op = "BatchSave"
    /\ ~last.err
    /\ \E i, j \in 1..Len(last.args.records) :
         /\ Len(BatchEmbedding(i)) = 0
         /\ Len(BatchEmbedding(j)) > 0
         /\ BatchStored(j)

\* C18: Save of a record whose embedding is empty returns an error without
\* a store call, and leaves the store and the cache as they were.
C18_SaveRejectsEmptyEmbedding ==
    (last.op = "Save" /\ Len(SavedEmbedding) = 0) =>
        /\ last.err
        /\ last.calls = <<>>
        /\ store = last.store
        /\ cache = last.cache

\* such a Save has returned on a store that holds rows
C18_Witness ==
    /\ last.op = "Save"
    /\ Len(SavedEmbedding) = 0
    /\ last.err
    /\ \E name \in DOMAIN store : store[name].rows # {}

(***************************************************************************)
(* ensureCollection: idempotence                                           *)
(***************************************************************************)
\* C19: a dimension enters the cache when ensureCollection returns success
\* for it and never leaves it; for a dimension in the cache ensureCollection
\* returns success, issues no store call and leaves store and cache as they
\* are, whatever the store would answer; so a Save for such a dimension
\* issues its Upsert only.
C19_EnsureCollectionIdempotent ==
    /\ last.cache \subseteq cache
    /\ (last.op = "Save" /\ ~last.err) => Len(SavedEmbedding) \in cache
    /\ \A dimension \in cache, fail \in FailSets :
          LET e == ensureCollection(Here, dimension, fail)
          IN /\ ~e.err
             /\ e.ctx.calls = <<>>
             /\ e.ctx.store = store
             /\ e.ctx.cache = cache
    /\ (last.op = "Save" /\ Len(SavedEmbedding) \in last.cache) =>
          last.calls = <<"Upsert">>

\* a Save for a dimension that an earlier call had ensured has returned
C19_Witness ==
    /\ last.op = "Save"
    /\ Len(SavedEmbedding) \in last.cache
    /\ ~last.err
    /\ Cardinality(Rows(store, getCollectionName(Len(SavedEmbedding)))) = 2

(***************************************************************************)
(* KeywordsRetrieve                                                        *)
(***************************************************************************)
\* the search of the i-th listed collection was answered (every listed
\* collection has the base name, so the i-th search is store call i + 1)
KeywordsSearched(i) ==
    /\ (i + 1) \notin last.fail
    /\ last.store[last.args.collections[i]].loaded

\* the matches of the first i listed collections, one after the other
RECURSIVE KeywordsConcatenation(_)
KeywordsConcatenation(i) ==
    IF i = 0 THEN <<>>
    ELSE KeywordsConcatenation(i - 1)
            \o (IF KeywordsSearched(i) THEN last.args.answers[i] ELSE <<>>)

\* C20: a keyword retrieval whose ListCollections is answered returns the
\* first min(top-K, total) rows of the concatenation, in the order of the
\* listing, of the matches of every collection whose search was answered;
\* each is a stored row matching the query, with score 1 and match type
\* "keywords"; the result has at most top-K items.
C20_KeywordsConcatenatedThenTruncated ==
    (last.op = "KeywordsRetrieve" /\ 1 \notin last.fail) =>
        LET all == KeywordsConcatenation(Len(last.args.collections))
            topK == last.args.params.TopK
            results == last.results
        IN /\ ~last.err
           /\ Len(results) = IF topK < Len(all) THEN topK ELSE Len(all)
           /\ Len(results) <= topK
           /\ \A j \in 1..Len(results) :
                /\ results[j].ID = all[j].id
                /\ results[j].ChunkID = all[j].chunk_id
                /\ results[j].Content = all[j].content
                /\ KeywordMatches(results[j].Content, last.args.params.Query)
                /\ \E name \in DOMAIN store : all[j] \in Rows(store, name)
                /\ results[j].Score = 1
                /\ results[j].MatchType = "keywords"

\* a keyword retrieval over two collections that both hold a match has
\* returned only the match of the first
C20_Witness ==
    /\ last.op = "KeywordsRetrieve"
    /\ ~last.err
    /\ Len(last.args.collections) = 2
    /\ Len(KeywordsConcatenation(2)) = 2
    /\ Len(last.results) = 1
    /\ last.results[1].ID = last.args.answers[1][1].id

\* C21: a keyword retrieval returns an error exactly when ListCollections
\* fails; otherwise it searches every listed collection, a collection whose
\* search fails contributes no result, and when top-K leaves room the
\* matches of every answered collection are all returned.
C21_KeywordsSearchFailureSkipsCollection ==
    (last.op = "KeywordsRetrieve") =>
        /\ last.err <=> 1 \in last.fail
        /\ 1 \notin last.fail =>
             LET n == Len(last.args.collections)
                 ids == {last.results[j].ID : j \in 1..Len(last.results)}
             IN /\ last.calls = <<"ListCollections">> \o [i \in 1..n |-> "Search"]
                /\ \A i \in 1..n :
                     IF KeywordsSearched(i)
                     THEN Len(KeywordsConcatenation(n)) <= last.args.params.TopK
                            => \A k \in 1..Len(last.args.answers[i]) :
                                  last.args.answers[i][k].id \in ids
                     ELSE \A r \in Rows(store, last.args.collections[i]) :
                              r.id \notin ids

\* a keyword retrieval whose first search failed has returned the match of
\* the second collection
C21_Witness ==
    /\ last.op = "KeywordsRetrieve"
    /\ last.fail = {2}
    /\ ~last.err
    /\ Len(last.args.collections) = 2
    /\ Len(last.results) = 1
    /\ Rows(store, last.args.collections[1]) # {}
    /\ last.results[1].ID = last.args.answers[2][1].id

\* C25: every dimension in the initialized cache names a collection that
\* exists in the store and whose load has completed, whatever the
\* interleaving of the callers.
C25_CacheSound ==
    \A d \in cache :
        /\ StoreHasCollection(store, getCollectionName(d))
        /\ store[getCollectionName(d)].loaded

\* one caller has marked its dimension while another is between its cache
\* check and its own mark
C25_Witness ==
    /\ cache # {}
    /\ \E p \in Callers : pc[p] \in {"HasCollection", "CreateCollection",
                                     "LoadCollection", "Await", "Store"}

\* the operations that reach ensureCollection
EnsuringOps == {"Save", "BatchSave", "CopyIndices"}

\* C26: no call drops a collection; a call that adds one is a Save, a
\* BatchSave or a CopyIndices, and Retrieve, the three Delete variants and the
\* two batch updates issue no CreateCollection and leave the set of
\* collections as it was.
C26_CollectionsOnlyGrow ==
    (last # NoCall) =>
        /\ DOMAIN last.store \subseteq DOMAIN store
        /\ \A i \in 1..Len(last.calls) : last.calls[i] # "DropCollection"
        /\ DOMAIN store # DOMAIN last.store =>
              /\ last.op \in EnsuringOps
              /\ \E i \in 1..Len(last.calls) : last.calls[i] = "CreateCollection"
        /\ last.op \notin EnsuringOps =>
              /\ DOMAIN store = DOMAIN last.store
              /\ \A i \in 1..Len(last.calls) : last.calls[i] # "CreateCollection"

\* a delete has removed the last rows of a collection, which is still there
C26_Witness ==
    /\ last.op \in DeleteOps
    /\ ~last.err
    /\ \E name \in DOMAIN last.store :
        /\ last.store[name].rows # {}
        /\ name \in DOMAIN store
        /\ store[name].rows = {}

\* the call that last holds, issued again from ctx with no failing store call
Reissued(ctx) ==
    CASE last.op = "Save" ->
           Save(ctx, last.args.records[1], last.args.additionalParams, {})
      [] last.op = "BatchSave" ->
           BatchSave(ctx, last.args.records, last.args.additionalParams,
                     last.args.order, {})
      [] last.op = "CopyIndices" ->
           CopyIndices(ctx, last.args.source, last.args.knowledgeMap,
                       last.args.chunkMap, last.args.target, last.args.dimension,
                       {})

\* the counters of minted identifiers from which the call that last holds
\* leaves the store and the counter it has left
StartCounters ==
    {n \in 0..nextID :
        LET warm == Reissued(Context(last.store, last.cache, n))
        IN warm.ctx.store = store /\ warm.ctx.nextID = nextID}

\* C27: a Save, BatchSave or CopyIndices whose store calls succeed answers
\* the same and leaves the same store when it starts from any part of the
\* cache, the empty one included, as when it starts from the whole cache;
\* and ensureCollection with an empty cache on an existing collection
\* succeeds without a CreateCollection and leaves its rows as they were.
C27_CacheIsOptimizationOnly ==
    /\ (last.op \in EnsuringOps /\ last.fail = {}) =>
          /\ StartCounters # {}
          /\ \A n \in StartCounters, ca \in SUBSET last.cache :
                LET cold == Reissued(Context(last.store, ca, n))
                IN /\ cold.err = last.err
                   /\ cold.results = last.results
                   /\ cold.ctx.store = store
                   /\ cold.ctx.nextID = nextID
    /\ \A name \in DOMAIN store :
          LET e == ensureCollection(Context(store, {}, nextID), store[name].dim, {})
          IN /\ ~e.err
             /\ e.ctx.calls = <<"HasCollection", "LoadCollection", "Await">>
             /\ e.ctx.store = StoreLoadCollection(store, name)

\* a Save has returned that found its dimension in the cache and went
\* straight to the upsert
C27_Witness ==
    /\ last.op = "Save"
    /\ ~last.err
    /\ last.cache # {}
    /\ last.calls = <<"Upsert">>
    /\ Rows(last.store, getCollectionName(Len(SavedEmbedding))) # {}

\* the column a Delete variant names
DeleteColumn ==
    CASE last.op = "DeleteByChunkIDList" -> "chunk_id"
      [] last.op = "DeleteByKnowledgeIDList" -> "knowledge_id"
      [] last.op = "DeleteBySourceIDList" -> "source_id"

\* C31: a Delete variant called with a non-empty id list and dimension d
\* issues one Delete; when it succeeds the collection of d has lost exactly
\* the rows whose named id is in the list, and the collections of the other
\* dimensions are as they were, whatever ids their rows carry.
C31_DeleteRemovesListedRows ==
    (last.op \in DeleteOps /\ last.args.ids # <<>>) =>
        LET name == getCollectionName(last.args.dimension)
        IN /\ last.calls = <<"Delete">>
           /\ DOMAIN store = DOMAIN last.store
           /\ \A other \in DOMAIN store \ {name} : store[other] = last.store[other]
           /\ last.err => store = last.store
           /\ ~last.err =>
                 Rows(store, name)
                     = {r \in Rows(last.store, name) :
                          \A i \in 1..Len(last.args.ids) :
                              r[DeleteColumn] # last.args.ids[i]}

\* a delete has removed a row of its collection, while the collection of
\* another dimension keeps a row with a listed id
C31_Witness ==
    /\ last.op \in DeleteOps
    /\ ~last.err
    /\ LET name == getCollectionName(last.args.dimension)
       IN /\ Rows(store, name) # Rows(last.store, name)
          /\ \E other \in DOMAIN store \ {name} :
               \E r \in store[other].rows :
                 \E i \in 1..Len(last.args.ids) : r[DeleteColumn] = last.args.ids[i]

\* the rows the base filter of the retrieval that last holds selects in its
\* collection
FilteredRows ==
    Bind(getBaseFilterForQuery(last.args.params),
         LAMBDA f : StoreSelect(last.store, QueriedCollection, f.exprStr, f.params))

\* C33: a vector retrieval that reaches the search and succeeds returns,
\* with a threshold above 0, only rows whose score is above the threshold;
\* with a threshold of 0 or below it returns min(top-K, n) of the n rows the
\* filter selects, whatever their scores.
C33_ThresholdIsRadius ==
    (/\ last.op = "VectorRetrieve"
     /\ ~last.err
     /\ StoreHasCollection(last.store, QueriedCollection)) =>
        LET threshold == last.args.params.Threshold
            topK == last.args.params.TopK
            n == Cardinality(FilteredRows)
        IN IF threshold > 0
           THEN \A i \in 1..Len(last.results) : last.results[i].Score > threshold
           ELSE Len(last.results) = IF topK < n THEN topK ELSE n

\* a retrieval with a threshold has returned one row of a collection and
\* left out another whose score is not above the threshold
C33_Witness ==
    /\ last.op = "VectorRetrieve"
    /\ ~last.err
    /\ last.args.params.Threshold > 0
    /\ Len(last.results) = 1
    /\ last.args.params.TopK > 1
    /\ \E r \in FilteredRows :
          InnerProduct(last.args.params.Embedding, r.embedding)
              <= last.args.params.Threshold

(***************************************************************************)
(* Batch updates are best-effort                                           *)
(***************************************************************************)
BatchUpdateOps == {"BatchUpdateChunkEnabledStatus", "BatchUpdateChunkTagID"}

\* the map a batch update was asked to apply and the column it writes
RequestedMap ==
    IF last.op = "BatchUpdateChunkEnabledStatus" THEN last.args.statusMap
    ELSE last.args.tagMap

WrittenColumn ==
    IF last.op = "BatchUpdateChunkEnabledStatus" THEN "is_enabled" ELSE "tag_id"

\* the upserts of the call that the store accepted
UpsertsAccepted ==
    IF embeddingIsDoubleArray
    THEN Cardinality({k \in 1..Len(last.calls) :
                         last.calls[k] = "Upsert" /\ k \notin last.fail})
    ELSE 0

\* the groups (collection, value) whose rows, found before the call, all
\* carry the requested value when it returns
GroupsInPlace ==
    {g \in (DOMAIN last.store)
            \X {RequestedMap[c] : c \in DOMAIN RequestedMap} :
        /\ \E r \in Rows(last.store, g[1]) :
              r.chunk_id \in DOMAIN RequestedMap
                  /\ RequestedMap[r.chunk_id] = g[2]
        /\ \A r \in Rows(store, g[1]) :
              (r.chunk_id \in DOMAIN RequestedMap
                  /\ RequestedMap[r.chunk_id] = g[2])
                  => r[WrittenColumn] = g[2]}

\* C35: a batch update returns an error only when listing the collections
\* fails, and then nothing was written; any failed read or upsert of a
\* group leaves the result a success; every upsert the store accepted is
\* still in place at return; an empty map gives success with no store call.
C35_BatchUpdatesBestEffort ==
    last.op \in BatchUpdateOps =>
        /\ DOMAIN RequestedMap = {} =>
              ~last.err /\ last.calls = <<>> /\ store = last.store
        /\ DOMAIN RequestedMap # {} =>
              /\ last.err <=> 1 \in last.fail
              /\ last.calls[1] = "ListCollections"
              /\ last.err => Len(last.calls) = 1 /\ store = last.store
        /\ Cardinality(GroupsInPlace) >= UpsertsAccepted

\* a batch update wrote one group, failed at a later call and returned
\* success with the written group kept and another keyed row not updated
C35_Witness ==
    /\ last.op \in BatchUpdateOps
    /\ ~last.err
    /\ embeddingIsDoubleArray
    /\ \E k \in last.fail : \E j \in 1..(k - 1) : last.calls[j] = "Upsert"
    /\ store # last.store
    /\ \E r \in RowsKeyedBy(RequestedMap) :
          r[WrittenColumn] # RequestedMap[r.chunk_id]

(***************************************************************************)
(* EstimateStorageSize                                                     *)
(***************************************************************************)
\* the embedding a sized record carries
EstimatedEmbedding(info) ==
    toMilvusVectorEmbedding(info, last.args.additionalParams).embedding

\* the size of one record by the formula over the payload strings that
\* calculateStorageSize adds up
SizeOverPayload(info) ==
    Len(info.Content) + Len(info.SourceID) + Len(info.ChunkID)
        + Len(info.KnowledgeID) + Len(info.KnowledgeBaseID)
        + 8 + 4 * Len(EstimatedEmbedding(info))
        + Len(EstimatedEmbedding(info)) * (16384 * 4 + 4) + 32

\* the size of one record by the formula over every variable-length string
\* field of the record
SizeOverStrings(info) == SizeOverPayload(info) + Len(info.TagID)

RECURSIVE SizeOfList(_, _, _)
SizeOfList(F(_), infos, i) ==
    IF i > Len(infos) THEN 0 ELSE F(infos[i]) + SizeOfList(F, infos, i + 1)

\* the call returned without a store call and left store and cache alone
EstimateIsPure ==
    /\ ~last.err
    /\ last.calls = <<>>
    /\ store = last.store
    /\ cache = last.cache

\* C40: EstimateStorageSize returns the sum over the records of the byte
\* lengths of the record's variable-length string fields + 8 + 4*d
\* + d*(16384*4+4) + 32, d the embedding length; 0 for no record; it makes
\* no store call and changes no state.
C40_EstimateIsFormula ==
    last.op = "EstimateStorageSize" =>
        /\ last.results = <<SizeOfList(SizeOverStrings, last.args.records, 1)>>
        /\ EstimateIsPure

(***************************************************************************)
(* Save and BatchSave insert                                               *)
(***************************************************************************)
\* the rows of every collection of a store
AllRows(st) == UNION {Rows(st, name) : name \in DOMAIN st}

\* the rows a store holds that it did not hold before the call
InsertedRows == AllRows(store) \ AllRows(last.store)

\* the records of the call that carry an embedding
RecordsWithEmbedding ==
    {i \in 1..Len(last.args.records) : Len(BatchEmbedding(i)) > 0}

\* C38: Save and BatchSave never overwrite: the rows held before the call
\* are kept as they were, the inserted rows have ids no row had before and
\* no two of them share an id; a successful Save inserts exactly one row
\* and a successful BatchSave as many rows as it has records with an
\* embedding, also when a record with the same chunk id and source id is
\* already stored.
C38_SavesAlwaysInsert ==
    last.op \in {"Save", "BatchSave"} =>
        /\ AllRows(last.store) \subseteq AllRows(store)
        /\ \A r \in InsertedRows :
              /\ \A old \in AllRows(last.store) : old.id # r.id
              /\ \A other \in InsertedRows : other.id = r.id => other = r
        /\ ~last.err => Cardinality(InsertedRows) = Cardinality(RecordsWithEmbedding)
        /\ (last.op = "Save" /\ ~last.err) => Cardinality(InsertedRows) = 1

\* a record already stored was saved again and makes a second row next to
\* the first
C38_Witness ==
    /\ last.op \in {"Save", "BatchSave"}
    /\ ~last.err
    /\ \E r \in InsertedRows : \E old \in AllRows(last.store) :
          /\ old.chunk_id = r.chunk_id
          /\ old.source_id = r.source_id
          /\ old.embedding = r.embedding
          /\ old.id # r.id

(***************************************************************************)
(* A failed ensureCollection                                               *)
(***************************************************************************)
EnsureCalls == {"HasCollection", "CreateCollection", "LoadCollection", "Await"}

\* the call that last holds returned the error of a store call of its
\* ensureCollection
EnsureFailed ==
    /\ last.op \in EnsuringOps
    /\ last.err
    /\ last.calls # <<>>
    /\ last.calls[Len(last.calls)] \in EnsureCalls

\* the dimension that ensureCollection was about
FailedDimension ==
    CASE last.op = "Save" -> Len(SavedEmbedding)
      [] last.op = "CopyIndices" -> last.args.dimension
      [] last.op = "BatchSave" -> last.args.order[GroupsSaved + 1]

\* C37: an ensureCollection(d) whose existence check, create, load or wait
\* fails returns the error at that store call, issues no further call and
\* leaves the cache as it was, without d; the next ensureCollection(d)
\* starts with the existence check again.
C37_FailedEnsureNotCached ==
    /\ EnsureFailed =>
          /\ Len(last.calls) \in last.fail
          /\ FailedDimension \notin cache
          /\ last.op # "BatchSave" => cache = last.cache
    /\ \A dimension \in CallDimensions \ cache, k \in 1..4 :
          LET e == ensureCollection(Here, dimension, {k})
              again == ensureCollection(
                           Context(e.ctx.store, e.ctx.cache, nextID),
                           dimension, {})
          IN /\ e.err <=> k <= Len(e.ctx.calls)
             /\ e.err =>
                  /\ Len(e.ctx.calls) = k
                  /\ e.ctx.cache = cache
                  /\ again.ctx.calls[1] = "HasCollection"
                  /\ Len(again.ctx.calls) >= 3
                  /\ ~again.err
                  /\ dimension \in again.ctx.cache

\* a Save failed at the wait for the load of a collection that exists, and
\* its dimension is not in the cache
C37_Witness ==
    /\ last.op = "Save"
    /\ EnsureFailed
    /\ last.calls[Len(last.calls)] = "Await"
    /\ getCollectionName(Len(SavedEmbedding)) \in DOMAIN store
    /\ Len(SavedEmbedding) \notin cache

(***************************************************************************)
(* Retrievals and batch updates on a store shared with other users         *)
(***************************************************************************)
\* the name is strictly longer than the base name and begins with it
LongerWithBaseName(name) ==
    /\ Len(name) > Len(collectionBaseName)
    /\ SubSeq(name, 1, Len(collectionBaseName)) = collectionBaseName

ListingOps == {"KeywordsRetrieve"} \cup BatchUpdateOps

\* the call that last holds got its listing and went through it
ListingAnswered ==
    /\ last.op \in ListingOps
    /\ 1 \notin last.fail
    /\ last.op \in BatchUpdateOps => DOMAIN RequestedMap # {}

\* the store calls of one kind the call issued
CallsNamed(name) ==
    Cardinality({k \in 1..Len(last.calls) : last.calls[k] = name})

\* C39: keyword retrieval and both batch updates visit, in the order of
\* the listing, exactly the listed collections whose name is strictly
\* longer than the base name and begins with it: <baseName>_<d> and any
\* other name that starts with the base name, but not <baseName> itself.
\* Keyword retrieval searches each visited collection once, and the tag
\* update reads each once for every tag of its map.
C39_VisitedByName ==
    ListingAnswered =>
        /\ last.visited = SelectSeq(last.args.collections, LongerWithBaseName)
        /\ last.op = "KeywordsRetrieve" =>
              CallsNamed("Search") = Len(last.visited)
        /\ last.op = "BatchUpdateChunkTagID" =>
              CallsNamed("Query") = Len(last.visited) * Len(last.args.order)

\* a tag update was given a listing with the base name itself and a name
\* without it, visited the two other collections and wrote the row of the
\* one that is not named after a dimension
C39_Witness ==
    /\ last.op = "BatchUpdateChunkTagID"
    /\ ~last.err
    /\ collectionExact \in SetOfSeq(last.args.collections)
    /\ collectionForeign \in SetOfSeq(last.args.collections)
    /\ SetOfSeq(last.visited) = {getCollectionName(1), collectionPrefixed}
    /\ Rows(store, collectionPrefixed) # Rows(last.store, collectionPrefixed)
    /\ Rows(store, collectionExact) = Rows(last.store, collectionExact)

\* row r is row old with at most the written column changed
SameButWrittenColumn(old, r) ==
    /\ old.id = r.id
    /\ r = [old EXCEPT ![WrittenColumn] = r[WrittenColumn]]

\* C36: a batch update leaves the collections and the record ids of every
\* collection as they were; a row differs from what it was in the written
\* column only (is_enabled for the status update, tag_id for the tag
\* update); rows whose chunk id is not a key of the map are as they were;
\* a collection whose name does not pass the name test is neither visited
\* nor changed.
C36_BatchUpdatesWriteOneColumn ==
    last.op \in BatchUpdateOps =>
        /\ DOMAIN store = DOMAIN last.store
        /\ \A name \in DOMAIN store :
              /\ {r.id : r \in Rows(store, name)}
                    = {r.id : r \in Rows(last.store, name)}
              /\ \A r \in Rows(store, name) :
                    \E old \in Rows(last.store, name) :
                        /\ SameButWrittenColumn(old, r)
                        /\ old.chunk_id \notin DOMAIN RequestedMap => old = r
              /\ ~LongerWithBaseName(name) =>
                    /\ store[name] = last.store[name]
                    /\ name \notin SetOfSeq(last.visited)

\* a tag update changed the tag of a keyed row and nothing else of it, and
\* left a row of another chunk, and a keyed row of a collection without
\* the base name, as they were
C36_Witness ==
    /\ last.op = "BatchUpdateChunkTagID"
    /\ ~last.err
    /\ DOMAIN last.args.tagMap = {chunkC1}
    /\ \E r \in Rows(store, getCollectionName(1)) :
          /\ r.chunk_id = chunkC1
          /\ r.tag_id = tagT2
          /\ r \notin Rows(last.store, getCollectionName(1))
    /\ \E r \in Rows(store, getCollectionName(1)) : r.chunk_id = chunkC2
    /\ \E r \in Rows(store, collectionForeign) :
          r.chunk_id = chunkC1 /\ r.tag_id = tagT1

RetrieveOps == {"VectorRetrieve", "KeywordsRetrieve"}

\* a result or a stored row meets the five criteria of params; knowledge
\* base, knowledge, tag and chunk are the values it carries
MeetsCriteria(params, knowledgeBase, knowledge, tag, chunk) ==
    /\ Len(params.KnowledgeBaseIDs) > 0 =>
          knowledgeBase \in SetOfSeq(params.KnowledgeBaseIDs)
    /\ Len(params.KnowledgeIDs) > 0 => knowledge \in SetOfSeq(params.KnowledgeIDs)
    /\ Len(params.TagIDs) > 0 => tag \in SetOfSeq(params.TagIDs)
    /\ knowledge \notin SetOfSeq(params.ExcludeKnowledgeIDs)
    /\ chunk \notin SetOfSeq(params.ExcludeChunkIDs)

NoCriteria(params) ==
    /\ params.KnowledgeBaseIDs = <<>>
    /\ params.KnowledgeIDs = <<>>
    /\ params.TagIDs = <<>>
    /\ params.ExcludeKnowledgeIDs = <<>>
    /\ params.ExcludeChunkIDs = <<>>

\* the rows of the searched collection that meet the criteria
RowsMeetingCriteria ==
    {r \in Rows(last.store, getCollectionName(Len(last.args.params.Embedding))) :
        MeetsCriteria(last.args.params, r.knowledge_base_id, r.knowledge_id,
                      r.tag_id, r.chunk_id)}

\* C32: every result of a vector or keyword retrieval meets the five
\* criteria together; the filter expression is empty exactly when the five
\* lists are; and the criteria restrict nothing else: an answered vector
\* search returns top-K of the rows that meet them, or all of them when
\* they are fewer.
C32_ResultsMeetAllCriteria ==
    last.op \in RetrieveOps =>
        /\ \A i \in 1..Len(last.results) :
              MeetsCriteria(last.args.params, last.results[i].KnowledgeBaseID,
                            last.results[i].KnowledgeID, last.results[i].TagID,
                            last.results[i].ChunkID)
        /\ ~getBaseFilterForQuery(last.args.params).err
        /\ NoCriteria(last.args.params)
              <=> getBaseFilterForQuery(last.args.params).exprStr = <<>>
        /\ (last.op = "VectorRetrieve" /\ ~last.err /\ Len(last.calls) = 2) =>
              Len(last.results) =
                  IF Cardinality(RowsMeetingCriteria) < last.args.params.TopK
                  THEN Cardinality(RowsMeetingCriteria)
                  ELSE last.args.params.TopK

\* a vector retrieval with four of the lists set returned the one row of
\* two that meets them
C32_Witness ==
    /\ last.op = "VectorRetrieve"
    /\ ~last.err
    /\ Len(last.args.params.KnowledgeBaseIDs) > 0
    /\ Len(last.args.params.KnowledgeIDs) > 0
    /\ Len(last.args.params.TagIDs) > 0
    /\ Len(last.args.params.ExcludeKnowledgeIDs) > 0
    /\ last.args.params.TopK = 2
    /\ Len(last.results) = 1
    /\ Cardinality(Rows(last.store, getCollectionName(1))) = 2

(***************************************************************************)
(* CopyIndices followed page by page                                       *)
(***************************************************************************)
\* the collection of the copy that is followed
CopyCollection == getCollectionName(copy.args.dimension)

\* the rows of the source base in st whose chunk id and knowledge id the
\* remap tables of the copy hold
MappedRowsIn(st) ==
    {r \in Rows(st, CopyCollection) :
        /\ r.knowledge_base_id = copy.args.source
        /\ r.chunk_id \in DOMAIN copy.args.chunkMap
        /\ r.knowledge_id \in DOMAIN copy.args.knowledgeMap}

\* the rows the last pass of the loop wrote, and those the call wrote
WrittenByPage == Rows(store, CopyCollection) \ Rows(copy.before, CopyCollection)
WrittenByCopy == Rows(store, CopyCollection) \ Rows(copy.start, CopyCollection)

\* t carries the target base, the mapped ids and the payload of r
CopiedFrom(t, r) ==
    /\ t.knowledge_base_id = copy.args.target
    /\ t.chunk_id = copy.args.chunkMap[r.chunk_id]
    /\ t.knowledge_id = copy.args.knowledgeMap[r.knowledge_id]
    /\ t.content = r.content
    /\ t.source_type = r.source_type
    /\ t.embedding = r.embedding
    /\ t.tag_id = r.tag_id
    /\ t.is_enabled = r.is_enabled

\* the source id of t follows from that of r by the three rules
SourceIDFollows(t, r) ==
    LET prefix == r.chunk_id \o <<"-">>
    IN IF r.source_id = r.chunk_id
       THEN t.source_id = copy.args.chunkMap[r.chunk_id]
       ELSE IF Len(r.source_id) >= Len(prefix)
               /\ SubSeq(r.source_id, 1, Len(prefix)) = prefix
       THEN t.source_id = copy.args.chunkMap[r.chunk_id] \o <<"-">>
                \o SubSeq(r.source_id, Len(prefix) + 1, Len(r.source_id))
       ELSE \A x \in Rows(copy.before, CopyCollection) : x.source_id # t.source_id

\* C29: each row a pass of CopyIndices writes has the source id its source
\* row gives it: the new chunk id when the old source id is the old chunk
\* id, the new chunk id followed by the old suffix when the old source id is
\* the old chunk id followed by "-" and a suffix, and otherwise an id that
\* no row of the collection had.
C29_CopiedSourceID ==
    \A t \in WrittenByPage :
        \E r \in MappedRowsIn(copy.before) :
            CopiedFrom(t, r) /\ SourceIDFollows(t, r)

\* a pass has written a row of each of the three kinds
C29_Witness ==
    /\ copy.pages > 0
    /\ \E t \in WrittenByPage : t.source_id = chunkD1
    /\ \E t \in WrittenByPage : t.source_id = chunkD2 \o <<"-", "q">>
    /\ \E t \in WrittenByPage : t.source_id[1] = "u"

\* C30: each row a pass of CopyIndices writes has a record id no row of the
\* collection had, the target base id, the mapped chunk id and knowledge
\* id, and the content, source type, embedding, tag id and isEnabled of a
\* source row; the rows the collection had are all still there.
C30_CopiedRowFields ==
    /\ Rows(copy.before, CopyCollection) \subseteq Rows(store, CopyCollection)
    /\ \A t \in WrittenByPage :
          /\ \A x \in Rows(copy.before, CopyCollection) : x.id # t.id
          /\ \E r \in MappedRowsIn(copy.before) : CopiedFrom(t, r)

\* a pass has written a full page of rows into the base it copies from
C30_Witness ==
    /\ copy.pages > 0
    /\ copy.args.target = copy.args.source
    /\ Cardinality(WrittenByPage) = batchSize
    /\ \E t \in WrittenByPage : t.tag_id = tagT2

\* the page of the source in which the loop reads row r
PageOf(r) ==
    (Cardinality({x \in Rows(copy.start, CopyCollection) :
                    x.knowledge_base_id = copy.args.source /\ x.id < r.id})
       \div batchSize) + 1

\* C22: when CopyIndices has returned from its loop and reads return the
\* embedding, at least as many rows have been written as the pages without
\* a failed store call hold mapped rows (copy from a base to another one).
C22_CopyContinuesAfterFailedPage ==
    (/\ copy.pc = "done"
     /\ copy.pages > 0
     /\ embeddingIsDoubleArray
     /\ copy.args.source # copy.args.target) =>
        Cardinality(WrittenByCopy)
            >= Cardinality({r \in MappedRowsIn(copy.start) :
                              PageOf(r) \notin copy.failedPages})

C1_ConcurrentEnsureSucceeds ==
    /\ \A p \in Callers : pc[p] = "done" => eret[p] = "nil"
    /\ (\A p \in Callers : pc[p] = "done") =>
          \A p \in Callers :
              /\ StoreHasCollection(store, getCollectionName(dim[p]))
              /\ store[getCollectionName(dim[p])].loaded

(***************************************************************************)
(* Properties of the filter compiler                                       *)
(***************************************************************************)
Compiled == fpc = "done" /\ ~fres.err

IsLogical(c) == ~c.isNil /\ c.Operator \in LogicalOps /\ c.Value.kind = "conds"
IsBetween(c) == ~c.isNil /\ c.Operator = operatorBetween
IsComparison(c) == ~c.isNil /\ c.Operator \in ComparisonOps
IsMembership(c) == ~c.isNil /\ c.Operator \in MembershipOps

RECURSIVE SumOver(_, _, _)
SumOver(F(_), cs, i) ==
    IF i > Len(cs) THEN 0 ELSE F(cs[i]) + SumOver(F, cs, i + 1)

RECURSIVE MaxOver(_, _, _)
MaxOver(F(_), cs, i) ==
    IF i > Len(cs) THEN 0
    ELSE LET a == F(cs[i])
             b == MaxOver(F, cs, i + 1)
         IN IF a > b THEN a ELSE b

\* nesting depth of logical operators: 0 for a leaf
RECURSIVE Depth(_)
Depth(c) == IF IsLogical(c) THEN 1 + MaxOver(Depth, c.Value.conds, 1) ELSE 0

RECURSIVE NumBetween(_)
NumBetween(c) ==
    IF IsLogical(c) THEN SumOver(NumBetween, c.Value.conds, 1)
    ELSE IF IsBetween(c) THEN 1 ELSE 0

\* number of leaf comparison and membership conditions
RECURSIVE NumLeafConditions(_)
NumLeafConditions(c) ==
    IF IsLogical(c) THEN SumOver(NumLeafConditions, c.Value.conds, 1)
    ELSE IF IsComparison(c) \/ IsMembership(c) THEN 1 ELSE 0

\* the tree with every literal value replaced by 0, its shape kept
EraseValue(v) ==
    CASE v.kind = "scalar" -> Scalar(0)
      [] v.kind = "list" -> List([i \in 1..Len(v.list) |-> 0])
      [] OTHER -> v

RECURSIVE Erase(_)
Erase(c) ==
    IF IsLogical(c)
    THEN [c EXCEPT !.Value =
            Conds([i \in 1..Len(c.Value.conds) |-> Erase(c.Value.conds[i])])]
    ELSE [c EXCEPT !.Value = EraseValue(c.Value)]

\* the names the leaves bind, in leaf order, each with the value its leaf
\* binds to it; k is the shared counter before the subtree
RECURSIVE Bindings(_, _)
RECURSIVE BindingsOfList(_, _, _)
BindingsOfList(cs, i, k) ==
    IF i > Len(cs) THEN [bs |-> <<>>, counter |-> k]
    ELSE LET head == Bindings(cs[i], k)
             tail == BindingsOfList(cs, i + 1, head.counter)
         IN [bs |-> head.bs \o tail.bs, counter |-> tail.counter]

Bindings(c, k) ==
    IF IsLogical(c) THEN BindingsOfList(c.Value.conds, 1, k)
    ELSE IF IsBetween(c)
    THEN LET base == convertParamName(c.Field, k + 1)
         IN [bs |-> << [name |-> base \o <<"_", "0">>,
                        value |-> Scalar(c.Value.list[1])],
                       [name |-> base \o <<"_", "1">>,
                        value |-> Scalar(c.Value.list[2])] >>,
             counter |-> k + 1]
    ELSE [bs |-> << [name |-> convertParamName(c.Field, k + 1),
                     value |-> c.Value] >>,
          counter |-> k + 1]

Range(f) == {f[x] : x \in DOMAIN f}

OccursAt(e, i, pat) ==
    i + Len(pat) - 1 <= Len(e) /\ SubSeq(e, i, i + Len(pat) - 1) = pat

LogicalKeywords == { <<" ", "a", "n", "d", " ">>, <<" ", "o", "r", " ">> }

\* number of "(" minus number of ")" in the first n characters
RECURSIVE ParenDepth(_, _)
ParenDepth(e, n) ==
    IF n = 0 THEN 0
    ELSE ParenDepth(e, n - 1)
            + (IF e[n] = "(" THEN 1 ELSE IF e[n] = ")" THEN -1 ELSE 0)

\* every logical keyword stands between ")" and "(", and the parentheses match
FullyParenthesized(e) ==
    /\ \A i \in 1..Len(e) : \A kw \in LogicalKeywords :
          OccursAt(e, i, kw) =>
              /\ i > 1 /\ e[i - 1] = ")"
              /\ i + Len(kw) <= Len(e) /\ e[i + Len(kw)] = "("
    /\ \A n \in 1..Len(e) : ParenDepth(e, n) >= 0
    /\ ParenDepth(e, Len(e)) = 0

\* C2: for every tree that compiles, the expression does not depend on the
\* literal values of the tree (it equals the expression of the tree with its
\* literals erased), and every literal a leaf binds is the value of an entry
\* of the returned parameter map.
C2_LiteralsOnlyInParams ==
    Compiled =>
        /\ fres.exprStr = Convert(Erase(cond)).exprStr
        /\ LET bs == Bindings(cond, 0).bs
           IN \A i \in 1..Len(bs) : bs[i].value \in Range(fres.params)

\* C3: within one Convert call the names bound by the leaves are pairwise
\* distinct, the parameter map has one entry per bound name, and each name
\* still carries the value its own leaf bound to it.
C3_ParamNamesNeverCollide ==
    Compiled =>
        LET bs == Bindings(cond, 0).bs
        IN /\ \A i, j \in 1..Len(bs) : i # j => bs[i].name # bs[j].name
           /\ Cardinality(DOMAIN fres.params) = Len(bs)
           /\ \A i \in 1..Len(bs) :
                 /\ bs[i].name \in DOMAIN fres.params
                 /\ fres.params[bs[i].name] = bs[i].value

\* C4 as stated: every compiled and/or tree of nesting depth >= 2 yields an
\* expression whose logical operators all have parenthesized operands and a
\* parameter map with as many entries as the tree has leaf comparison and
\* membership conditions.
C4_NestedTreesOriginal ==
    (Compiled /\ Depth(cond) >= 2) =>
        /\ FullyParenthesized(fres.exprStr)
        /\ Cardinality(DOMAIN fres.params) = NumLeafConditions(cond)

\* C4 amended: the same, for the trees of nesting depth >= 2 that hold no
\* between leaf.
C4_NestedTreesWithoutBetween ==
    (Compiled /\ Depth(cond) >= 2 /\ NumBetween(cond) = 0) =>
        /\ FullyParenthesized(fres.exprStr)
        /\ Cardinality(DOMAIN fres.params) = NumLeafConditions(cond)

C4_Witness ==
    /\ Compiled /\ Depth(cond) >= 2 /\ NumBetween(cond) = 0
    /\ NumLeafConditions(cond) >= 3
    /\ \E i \in 1..Len(fres.exprStr) : \E kw \in LogicalKeywords :
          OccursAt(fres.exprStr, i, kw)

\* C5: a between condition on field f with value [lo, hi] compiles to exactly
\* "f >= {p0} and f <= {p1}" with two distinct names, and the parameter map
\* binds p0 to lo and p1 to hi and nothing else.
C5_BetweenInclusiveBounds ==
    (fpc = "done" /\ IsBetween(cond) /\ cond.Field # <<>>
        /\ cond.Value.kind = "list" /\ Len(cond.Value.list) = 2) =>
        /\ ~fres.err
        /\ \E p0, p1 \in DOMAIN fres.params :
              /\ p0 # p1
              /\ DOMAIN fres.params = {p0, p1}
              /\ fres.exprStr =
                    cond.Field \o <<" ", ">", "=", " ", "{">> \o p0
                        \o <<"}", " ", "a", "n", "d", " ">>
                        \o cond.Field \o <<" ", "<", "=", " ", "{">> \o p1
                        \o <<"}">>
              /\ fres.params[p0] = Scalar(cond.Value.list[1])
              /\ fres.params[p1] = Scalar(cond.Value.list[2])

C5_Witness ==
    /\ Compiled /\ IsBetween(cond)
    /\ cond.Value.list[1] # cond.Value.list[2]
    /\ Cardinality(DOMAIN fres.params) = 2

(***************************************************************************)
(* Rejected trees                                                          *)
(***************************************************************************)
\* the thirteen operators
SupportedOps == ComparisonOps \cup MembershipOps \cup LogicalOps \cup {operatorBetween}

\* a node that is malformed by itself: nil; an unsupported operator; a leaf
\* with an empty field or a nil value; a membership leaf whose value is not
\* a list or is an empty list; a between leaf whose value does not have
\* exactly two elements
NodeMalformed(c) ==
    \/ c.isNil
    \/ c.Operator \notin SupportedOps
    \/ /\ c.Operator \in ComparisonOps \cup MembershipOps \cup {operatorBetween}
       /\ c.Field = <<>> \/ c.Value.kind = "nil"
    \/ /\ c.Operator \in MembershipOps
       /\ c.Value.kind \notin {"list", "conds"} \/ SliceLen(c.Value) = 0
    \/ /\ c.Operator = operatorBetween
       /\ c.Value.kind \notin {"list", "conds"} \/ SliceLen(c.Value) # 2

\* a malformed node at any depth of the tree
RECURSIVE AnyMalformed(_)
AnyMalformed(c) ==
    \/ NodeMalformed(c)
    \/ /\ IsLogical(c)
       /\ \E i \in 1..Len(c.Value.conds) : AnyMalformed(c.Value.conds[i])

\* C23: Convert of a tree that holds a malformed node at any depth returns
\* an error, with no expression and no parameter.
C23_MalformedNodeFailsCompilation ==
    (fpc = "done" /\ AnyMalformed(cond)) =>
        /\ fres.err
        /\ fres.exprStr = <<>>
        /\ DOMAIN fres.params = {}

\* a tree whose first child is well formed and whose second is malformed
\* has been rejected
C23_Witness ==
    /\ fpc = "done"
    /\ IsLogical(cond)
    /\ Len(cond.Value.conds) = 2
    /\ ~AnyMalformed(cond.Value.conds[1])
    /\ NodeMalformed(cond.Value.conds[2])
    /\ fres.err

\* a logical node whose value is nil, is not a list of sub-conditions, or
\* is an empty list of them
RECURSIVE AnyDegenerateLogical(_)
AnyDegenerateLogical(c) ==
    /\ ~c.isNil
    /\ c.Operator \in LogicalOps
    /\ \/ c.Value.kind # "conds"
       \/ Len(c.Value.conds) = 0
       \/ \E i \in 1..Len(c.Value.conds) : AnyDegenerateLogical(c.Value.conds[i])

\* C24: Convert of a logical condition whose value is nil, not a list of
\* sub-conditions or an empty list returns an error, and a logical
\* condition that compiles never compiles to the empty expression.
C24_DegenerateLogicalRejected ==
    (fpc = "done" /\ ~cond.isNil /\ cond.Operator \in LogicalOps) =>
        /\ AnyDegenerateLogical(cond) => fres.err
        /\ ~fres.err => fres.exprStr # <<>>

\* a logical node with an empty list of sub-conditions has been rejected
C24_Witness ==
    /\ fpc = "done"
    /\ ~cond.isNil
    /\ cond.Operator \in LogicalOps
    /\ cond.Value.kind = "conds"
    /\ Len(cond.Value.conds) = 0
    /\ fres.err

(***************************************************************************)
(* Logical conditions                                                      *)
(***************************************************************************)
\* the counter after the first i children of a logical node compiled from
\* counter 0, and the result of the i-th child
RECURSIVE CounterAfter(_, _)
CounterAfter(conds, i) ==
    IF i = 0 THEN 0
    ELSE convertCondition(conds[i], CounterAfter(conds, i - 1)).counter

ChildResult(conds, i) == convertCondition(conds[i], CounterAfter(conds, i - 1))

\* ((...((e1) op (e2)) op ...) op (en)) of the first n children
RECURSIVE LeftFold(_, _, _)
LeftFold(conds, op, n) ==
    IF n = 1 THEN ChildResult(conds, 1).exprStr
    ELSE <<"(">> \o LeftFold(conds, op, n - 1) \o <<")", " ">> \o op
            \o <<" ", "(">> \o ChildResult(conds, n).exprStr \o <<")">>

\* a map as the set of its entries
Entries(m) == {<<k, m[k]>> : k \in DOMAIN m}

\* a compiled tree whose root is a logical node with two children or more
CompiledFold ==
    /\ Compiled
    /\ IsLogical(cond)
    /\ Len(cond.Value.conds) >= 2

\* the expression of such a tree is the left fold of its children's
\* expressions
FoldedLeftToRight ==
    CompiledFold =>
        fres.exprStr = LeftFold(cond.Value.conds, cond.Operator,
                                Len(cond.Value.conds))

\* the children of such a tree take their counters in order
CountersInLeafOrder ==
    CompiledFold =>
        LET conds == cond.Value.conds
        IN \A i \in 1..Len(conds) :
             /\ CounterAfter(conds, i) > CounterAfter(conds, i - 1)
             /\ (IsComparison(conds[i]) \/ IsMembership(conds[i])) =>
                   DOMAIN ChildResult(conds, i).params
                       = {convertParamName(conds[i].Field, CounterAfter(conds, i))}

\* the map of such a tree holds the entries of its children's maps
MapIsUnionOfChildren ==
    CompiledFold =>
        LET conds == cond.Value.conds
        IN Entries(fres.params)
             = UNION {Entries(ChildResult(conds, i).params) : i \in 1..Len(conds)}

\* C34: the expression of a logical node with n >= 2 children is the left
\* fold of the children's expressions, each operand in parentheses, joined
\* by the operator in lower case; its parameter map is the union of the
\* children's maps; the children are compiled left to right with one
\* counter.
C34_LogicalLeftFold ==
    /\ FoldedLeftToRight
    /\ CountersInLeafOrder
    /\ MapIsUnionOfChildren

====
